---- MODULE Spec2Model ----
(***************************************************************************)
(* Entity reconciliation and deduplication engine of the BeanMe ETL        *)
(* pipeline: the ID counter ledger, the product and location catalogs,     *)
(* the record fingerprint set and the transform / extract handlers that    *)
(* drive them as read-modify-write cycles against a blob store (S3) that   *)
(* offers no locks and no compare-and-swap.                                *)
(*                                                                         *)
(* A blob is a record [exists, body]; a get of a blob that does not exist  *)
(* is the store's NoSuchKey answer.  Every get and put may also fail with  *)
(* another error (the store is an external service): each such failure is  *)
(* an action of its own.                                                   *)
(***************************************************************************)
EXTENDS Integers, Sequences, FiniteSets, TLC

VARIABLES
    \* ---- the ID counter ledger (COUNTER_FILE_KEY) and its callers
    counterFile,    \* the persisted ledger blob: body maps entity type -> last issued id
    lpc,            \* per caller: "idle" | "loaded" (between the get and the put)
    lreq,           \* per caller: entity_types_count of the call in progress
    lcounters,      \* per caller: the counters dict it loaded
    issuedLog,      \* history: one entry [req, result] per call that returned
    ledgerCalls,    \* history: number of calls begun
    ledgerOverlap   \* history: some call began while another was between get and put

ledgerVars == <<counterFile, lpc, lreq, lcounters, issuedLog, ledgerCalls, ledgerOverlap>>

VARIABLES
    \* ---- the product catalog (PRODUCTS_FILE_KEY) and one working copy of it
    prodFile,       \* the persisted catalog blob: body is the sequence of CSV rows
    ploaded,        \* whether a working product_registry is held
    preg,           \* the working product_registry: keys, products, next_id, updated
    plast,          \* history: the latest get_product_id call on preg, [cand, id]
    pearlier        \* history: one earlier get_product_id call on preg, [cand, id]

productVars == <<prodFile, ploaded, preg, plast, pearlier>>

VARIABLES
    \* ---- the fingerprint set (hash_registry/record_hashes.json) and the extract invocations
    hashFile,       \* the persisted fingerprint set blob: body is the set of the hashes
                    \* in its JSON list (the list is only ever read through "in")
    processedFile,  \* the processed/<file> artifact (its content is never read back)
    xpc,            \* per invocation: where extract_csv stands
    xdedup,         \* per invocation: perform_deduplication
    xdata,          \* per invocation: data, the well-formed rows with their record_hash
    xidx,           \* per invocation: index in data of the record being looked up
    xnew,           \* per invocation: new_hashes
    sqsQueue,       \* the queue to the transform stage: how many times each message
                    \* body (the rows of one file that were admitted) has been sent
    xunique,        \* per invocation: unique_data
    xdup,           \* per invocation: last_duplicate_count
    xreg,           \* per invocation: hash_registry as loaded by update_hash_registry
    extractCalls,   \* history: number of extract_csv calls begun
    extractOverlap, \* history: some extract_csv call began while another was running
    extractFaults   \* history: some store request of an extract_csv call has failed

extractVars == <<hashFile, processedFile, sqsQueue, xpc, xdedup, xdata, xidx, xnew, xunique, xdup, xreg,
                 extractCalls, extractOverlap, extractFaults>>

VARIABLES
    \* ---- the location catalog (LOCATIONS_FILE_KEY), the per-bucket outputs and the
    \* ---- invocations of the transform handler
    locFile,        \* the persisted location catalog blob: body is the sequence of CSV rows
    txFile,         \* per bucket key: the transactions/<folder>/<date>/transactions.csv blob
    basketFile,     \* per bucket key: the baskets/<folder>/<date>/baskets.csv blob
    tstate,         \* per invocation: the locals of lambda_handler and of the calls it
                    \* is in, with pc, the place it stands at
    tbefore,        \* history, per invocation: the ledger counters that were persisted
                    \* when it entered its current bucket
    thist,          \* history, per invocation: the calls it has made of the catalog
                    \* reads and flushes, the buckets it has stored and whether one of
                    \* them added a location or a product; dropped when it answers 500
    transformCalls, \* history: number of lambda_handler invocations begun
    transformOverlap, \* history: some invocation began while another was running
    transformFailed,  \* history: some invocation returned status 500
    seenTowns       \* history: the towns of the records handed to the invocations begun,
                    \* kept as long as every invocation ran alone and none returned 500

transformVars == <<locFile, txFile, basketFile, tstate, tbefore, thist, transformCalls,
                   transformOverlap, transformFailed, seenTowns>>

\* what the transform handler leaves alone of the ledger's and the product catalog's users
ledgerLocals == <<lpc, lreq, lcounters, issuedLog, ledgerCalls, ledgerOverlap>>
productLocals == <<ploaded, preg, plast, pearlier>>

VARIABLES
    \* ---- the handlers around the services: one execution environment each
    xhandler        \* the extract handler: its position, the records still to be
                    \* handed to _process_record, the two counters of EventUtils,
                    \* last_duplicate_count of S3Service and the response
VARIABLES
    lhandler,       \* the load handler: its position, the records still to be
                    \* looked at, files_processed, the Redshift tables, the response
    chandler,       \* the create-tables handler: its position, the request type and
                    \* the responses that reached CloudFormation
    observed,       \* the functions whose invocations the behaviour follows
    mstage,         \* MessageHandler applied to one batch: the payloads it was given,
                    \* the messages parsed from them and the groups made of these
    notifications   \* the ObjectCreated notifications of the raw bucket that wait
                    \* to be delivered to the extract handler, and the uploads so far

handlerVars == <<xhandler, lhandler, chandler, observed, mstage, notifications>>

vars == <<ledgerVars, productVars, extractVars, transformVars, handlerVars>>

\* ------------------------------------------------------------------ bounds
MaxCalls == 2       \* get_next_id_batch calls in one behaviour
MaxCount == 2       \* ids requested per entity type in one call
MaxProducts == 3    \* products one catalog grows to
MaxExtracts == 2    \* extract_csv calls in one behaviour
MaxInvocations == 2 \* invocations of the transform handler in one behaviour
MaxEvents == 2      \* events delivered to one of the other handlers in one behaviour

\* ------------------------------------------------------------ common helpers
Range(s) == {s[i] : i \in DOMAIN s}

\* the element of a set of one element; { F(x) : x \in {e} } has e worked out once
Only(S) == CHOOSE x \in S : TRUE

RECURSIVE SumSeq(_)
SumSeq(s) == IF s = <<>> THEN 0 ELSE Head(s) + SumSeq(Tail(s))

EmptyMap == [t \in {} |-> 0]

\* ======================================================= the ID counter ledger
EntityTypes == {"transaction", "basket"}
Callers == {"c1", "c2"}

\* entity_types_count: any mix of entity types and counts
Requests == UNION {[S -> 0..MaxCount] : S \in SUBSET EntityTypes}

NoCounterFile == [exists |-> FALSE, body |-> EmptyMap]

\* read_json of the ledger, NoSuchKey leaving counters = {}
LoadCounters(blob) == IF blob.exists THEN blob.body ELSE EmptyMap

\* a dict in which a type not met before starts at 1
EnsureTypesMut(counters, req) ==
    [t \in (DOMAIN counters) \cup (DOMAIN req) |->
        IF t \in DOMAIN counters THEN counters[t] ELSE 1]

\* "Ensure all needed types are in the counter dict"
EnsureTypes(counters, req) ==
    [t \in (DOMAIN counters) \cup (DOMAIN req) |->
        IF t \in DOMAIN counters THEN counters[t] ELSE 0]

\* start_id = counters[entity_type] + 1
StartIdMut(counters, t) == counters[t]
StartId(counters, t) == counters[t] + 1

\* counters[entity_type] += count
AdvanceMut(counters, t, count) == count
Advance(counters, t, count) == counters[t] + count

\* the body of get_next_id_batch between the get and the put
ReserveResult(counters, req) ==
    LET c == EnsureTypes(counters, req)
    IN  [t \in DOMAIN req |-> StartId(c, t)]

\* a reservation that adds to the counters the store holds at the time of the put
\* a ledger put that stores the counters as they were read
ReserveCountersLateMut(counters, req) == EnsureTypes(counters, req)

ReserveCountersMut(counters, req) ==
    LET c == EnsureTypes(LoadCounters(counterFile), req)
    IN  [t \in DOMAIN c |-> IF t \in DOMAIN req THEN Advance(c, t, req[t]) ELSE c[t]]

ReserveCounters(counters, req) ==
    LET c == EnsureTypes(counters, req)
    IN  [t \in DOMAIN c |-> IF t \in DOMAIN req THEN Advance(c, t, req[t]) ELSE c[t]]

LedgerInit ==
    /\ counterFile = NoCounterFile
    /\ lpc = [c \in Callers |-> "idle"]
    /\ lreq = [c \in Callers |-> EmptyMap]
    /\ lcounters = [c \in Callers |-> EmptyMap]
    /\ issuedLog = <<>>
    /\ ledgerCalls = 0
    /\ ledgerOverlap = FALSE

\* get_next_id_batch up to and including the get of the ledger
LedgerRead(c, req) ==
    /\ lpc[c] = "idle"
    /\ ledgerCalls < MaxCalls
    /\ lpc' = [lpc EXCEPT ![c] = "loaded"]
    /\ lreq' = [lreq EXCEPT ![c] = req]
    /\ lcounters' = [lcounters EXCEPT ![c] = LoadCounters(counterFile)]
    /\ ledgerCalls' = ledgerCalls + 1
    /\ ledgerOverlap' = (ledgerOverlap \/ \E d \in Callers \ {c} : lpc[d] = "loaded")
    /\ UNCHANGED <<counterFile, issuedLog, productVars, extractVars, transformVars, handlerVars>>

\* the get fails with an error other than NoSuchKey: the call raises
LedgerReadFail(c) ==
    /\ lpc[c] = "idle"
    /\ ledgerCalls < MaxCalls
    /\ ledgerCalls' = ledgerCalls + 1
    /\ UNCHANGED <<counterFile, lpc, lreq, lcounters, issuedLog, ledgerOverlap, productVars, extractVars, transformVars, handlerVars>>

\* the rest of get_next_id_batch: reserve, put the whole ledger, return
LedgerWrite(c) ==
    /\ lpc[c] = "loaded"
    /\ counterFile' = [exists |-> TRUE, body |-> ReserveCounters(lcounters[c], lreq[c])]
    /\ issuedLog' = Append(issuedLog,
            [req |-> lreq[c], result |-> ReserveResult(lcounters[c], lreq[c])])
    /\ lpc' = [lpc EXCEPT ![c] = "idle"]
    /\ lreq' = [lreq EXCEPT ![c] = EmptyMap]
    /\ lcounters' = [lcounters EXCEPT ![c] = EmptyMap]
    /\ UNCHANGED <<ledgerCalls, ledgerOverlap, productVars, extractVars, transformVars, handlerVars>>

\* the put fails: the call raises, nothing is issued
LedgerWriteFail(c) ==
    /\ lpc[c] = "loaded"
    /\ lpc' = [lpc EXCEPT ![c] = "idle"]
    /\ lreq' = [lreq EXCEPT ![c] = EmptyMap]
    /\ lcounters' = [lcounters EXCEPT ![c] = EmptyMap]
    /\ UNCHANGED <<counterFile, issuedLog, ledgerCalls, ledgerOverlap, productVars, extractVars, transformVars, handlerVars>>

LedgerNext ==
    \/ \E c \in Callers, req \in Requests : LedgerRead(c, req)
    \/ \E c \in Callers : LedgerReadFail(c)
    \/ \E c \in Callers : LedgerWrite(c)
    \/ \E c \in Callers : LedgerWriteFail(c)

\* ========================================================= the product catalog
\* Prices are counted in ten-thousandths of a currency unit, so that a price with
\* more than two decimals, and a difference below 0.001, can be told apart.
UnitsPerCent == 100     \* 0.01
PriceTolerance == 10    \* 0.001

\* 3.50, 3.5004, 3.504 and 3.51: no price of the model lies half-way between two
\* cents, where the rounding of "%.2f" depends on the binary value of the float.
Prices == {35000, 35004, 35040, 35100}
ProductNames == {"Coffee"}
Flavours == {"Standard", "Vanilla"}
Sizes == {"Regular"}

\* the product dictionaries transform_products builds
Candidates ==
    [product_name : ProductNames, product_flavour : Flavours,
     product_size : Sizes, product_price : Prices]

PyNone == "<None>"      \* Python's None, as a flavour value

\* str(flavour)
StrOf(f) == IF f = PyNone THEN "None" ELSE f

\* f"{price:.2f}", as a number of cents
FormatPrice2(price) == (price + (UnitsPerCent \div 2)) \div UnitsPerCent

\* float(price_str) of a two-decimal string
FloatOfCents(cents) == cents * UnitsPerCent

Abs(x) == IF x < 0 THEN -x ELSE x

\* product_key of a candidate
CandidateKey(cand) ==
    <<cand.product_name, StrOf(cand.product_flavour), cand.product_size,
      FormatPrice2(cand.product_price)>>

\* product_key of a catalog product
ProductKey(prod) == <<prod.name, StrOf(prod.flavour), prod.size, FormatPrice2(prod.price)>>

\* the comparison of get_product_id's scan
KeyMatches(key, cand) ==
    /\ key[1] = cand.product_name
    /\ StrOf(key[2]) = StrOf(cand.product_flavour)
    /\ key[3] = cand.product_size
    /\ Abs(FloatOfCents(key[4]) - cand.product_price) < PriceTolerance

\* dict assignment d[k] = v
DictPut(d, k, v) == [x \in (DOMAIN d) \cup {k} |-> IF x = k THEN v ELSE d[x]]

EmptyRegistry == [keys |-> EmptyMap, products |-> <<>>, next_id |-> 1, updated |-> FALSE]

\* get_product_id: the id returned.  Two-decimal keys of one (name, flavour, size)
\* lie at least 0.01 apart, so at most one key is within 0.001 of the candidate
\* and the order of the scan does not matter.
ProductIdOf(reg, cand) ==
    IF \E k \in DOMAIN reg.keys : KeyMatches(k, cand)
    THEN reg.keys[CHOOSE k \in DOMAIN reg.keys : KeyMatches(k, cand)]
    ELSE reg.next_id

\* a get_product_id that appends without looking the candidate up
RegistryAfterMut(reg, cand) ==
    [keys |-> DictPut(reg.keys, CandidateKey(cand), reg.next_id),
     products |-> Append(reg.products,
           [id |-> reg.next_id, name |-> cand.product_name,
            flavour |-> cand.product_flavour, size |-> cand.product_size,
            price |-> cand.product_price]),
     next_id |-> reg.next_id + 1,
     updated |-> TRUE]

\* get_product_id: the registry it leaves
RegistryAfter(reg, cand) ==
    IF \E k \in DOMAIN reg.keys : KeyMatches(k, cand)
    THEN reg
    ELSE [keys |-> DictPut(reg.keys, CandidateKey(cand), reg.next_id),
          products |-> Append(reg.products,
                [id |-> reg.next_id, name |-> cand.product_name,
                 flavour |-> cand.product_flavour, size |-> cand.product_size,
                 price |-> cand.product_price]),
          next_id |-> reg.next_id + 1,
          updated |-> TRUE]

\* generate_csv of one product: None is written as the empty field, a float by its
\* shortest repr (which float() reads back exactly)
CsvRowOfProduct(prod) ==
    [id |-> prod.id, name |-> prod.name,
     flavour |-> IF prod.flavour = PyNone THEN "" ELSE prod.flavour,
     size |-> prod.size, price |-> prod.price]

\* one row of read_all_products
ProductOfCsvRow(row) ==
    [id |-> row.id, name |-> row.name,
     flavour |-> IF row.flavour # "None" THEN row.flavour ELSE PyNone,
     size |-> row.size, price |-> row.price]

\* sorted(products, key=id): a stable sort, by insertion
RECURSIVE InsertById(_, _)
InsertById(sorted, x) ==
    IF sorted = <<>> THEN <<x>>
    ELSE IF x.id < Head(sorted).id THEN <<x>> \o sorted
    ELSE <<Head(sorted)>> \o InsertById(Tail(sorted), x)

RECURSIVE SortById(_)
SortById(s) == IF s = <<>> THEN <<>> ELSE InsertById(SortById(SubSeq(s, 1, Len(s) - 1)), s[Len(s)])

\* update_products: the CSV body written
ProductsCsv(products) ==
    LET sorted == SortById(products) IN [i \in DOMAIN sorted |-> CsvRowOfProduct(sorted[i])]

\* read_all_products over the rows of the file, in order
RECURSIVE ReadProductRows(_, _)
ReadProductRows(rows, reg) ==
    IF rows = <<>> THEN reg
    ELSE LET prod == ProductOfCsvRow(Head(rows))
         IN  ReadProductRows(Tail(rows),
                [keys |-> DictPut(reg.keys, ProductKey(prod), prod.id),
                 products |-> Append(reg.products, prod),
                 next_id |-> IF prod.id >= reg.next_id THEN prod.id + 1 ELSE reg.next_id,
                 updated |-> reg.updated])

ReadAllProducts(blob) == IF blob.exists THEN ReadProductRows(blob.body, EmptyRegistry) ELSE EmptyRegistry

NoCall == [cand |-> [product_name |-> "", product_flavour |-> "", product_size |-> "",
                     product_price |-> 0], id |-> 0]

ProductInit ==
    /\ prodFile = [exists |-> FALSE, body |-> <<>>]
    /\ ploaded = FALSE
    /\ preg = EmptyRegistry
    /\ plast = NoCall
    /\ pearlier = NoCall

\* read_all_products: a fresh working copy of the catalog
ProdLoad ==
    /\ ~ploaded
    /\ ploaded' = TRUE
    /\ preg' = ReadAllProducts(prodFile)
    /\ plast' = NoCall
    /\ pearlier' = NoCall
    /\ UNCHANGED <<prodFile, ledgerVars, extractVars, transformVars, handlerVars>>

\* get_product_id(preg, cand); the history keeps the call, and either keeps the
\* earlier call it remembered or remembers the one that was the latest
ProdResolve(cand, remember) ==
    /\ ploaded
    /\ Len(preg.products) < MaxProducts
    /\ preg' = RegistryAfter(preg, cand)
    /\ plast' = [cand |-> cand, id |-> ProductIdOf(preg, cand)]
    /\ pearlier' = IF remember /\ plast # NoCall THEN plast ELSE pearlier
    /\ UNCHANGED <<prodFile, ploaded, ledgerVars, extractVars, transformVars, handlerVars>>

\* update_products(preg["products"]) at the end of an invocation whose registry was
\* marked updated; the working copy is dropped with the invocation
ProdFlush ==
    /\ ploaded
    /\ preg.updated
    /\ prodFile' = [exists |-> TRUE, body |-> ProductsCsv(preg.products)]
    /\ ploaded' = FALSE
    /\ preg' = EmptyRegistry
    /\ plast' = NoCall
    /\ pearlier' = NoCall
    /\ UNCHANGED <<ledgerVars, extractVars, transformVars, handlerVars>>

\* the invocation ends without a flush (nothing updated, or it failed)
ProdDrop ==
    /\ ploaded
    /\ ploaded' = FALSE
    /\ preg' = EmptyRegistry
    /\ plast' = NoCall
    /\ pearlier' = NoCall
    /\ UNCHANGED <<prodFile, ledgerVars, extractVars, transformVars, handlerVars>>

ProductNext ==
    \/ ProdLoad
    \/ \E cand \in Candidates, remember \in BOOLEAN : ProdResolve(cand, remember)
    \/ ProdFlush
    \/ ProdDrop

\* ================================================ the fingerprint set and extract_csv
Extractors == {"e1", "e2"}

\* raw CSV rows, as the lists of fields csv.reader yields: two well-formed orders
\* and one row that lacks the card_number
RowA == <<"28/04/2025 14:30", "Springfield", "Homer", "Large Coffee - Vanilla - 3.50", "3.50", "card", "1234">>
RowB == <<"28/04/2025 14:35", "Shelbyville", "Ned", "Regular Tea - 2.00", "2.00", "cash", "">>
RowShort == <<"28/04/2025 14:40", "Springfield", "Moe", "Regular Tea - 2.00", "2.00", "cash">>

\* the order of RowA, paid another way
RowACash == <<"28/04/2025 14:30", "Springfield", "Homer", "Large Coffee - Vanilla - 3.50", "3.50", "cash", "">>

\* the contents of the raw files of a deployment that delivers one file at a time
SeqFiles ==
    { <<>>, <<RowA>>, <<RowACash>>, <<RowB>>, <<RowShort>>,
      <<RowA, RowACash>>, <<RowShort, RowA>>, <<RowB, RowShort>> }

\* the contents of a raw file
RawFiles ==
    { <<>>, <<RowA>>, <<RowB>>, <<RowShort>>,
      <<RowA, RowA>>, <<RowA, RowB>>, <<RowB, RowA>>, <<RowB, RowB>>,
      <<RowShort, RowA>>, <<RowB, RowShort>> }

HeaderCount == 7    \* len(self.headers)

\* a digest taken over all seven fields
RecordHashMut(row) ==
    row[1] \o "|" \o row[2] \o "|" \o row[3] \o "|" \o row[4] \o "|" \o row[5]
        \o "|" \o row[6] \o "|" \o row[7]

\* _generate_record_hash: the digest of the five business fields joined by "|";
\* the digest itself is taken to be free of collisions
RecordHash(row) == row[1] \o "|" \o row[2] \o "|" \o row[3] \o "|" \o row[4] \o "|" \o row[5]

\* a parse that gives up the file at a row of the wrong field count
ProcessCsvContentMut(rows) ==
    IF \E i \in DOMAIN rows : Len(rows[i]) # HeaderCount THEN <<>>
    ELSE [i \in DOMAIN rows |-> [row |-> rows[i], record_hash |-> RecordHash(rows[i])]]

\* _process_csv_content: rows of the wrong field count are skipped
RECURSIVE ProcessCsvContent(_)
ProcessCsvContent(rows) ==
    IF rows = <<>> THEN <<>>
    ELSE IF Len(Head(rows)) # HeaderCount THEN ProcessCsvContent(Tail(rows))
    ELSE <<[row |-> Head(rows), record_hash |-> RecordHash(Head(rows))]>>
            \o ProcessCsvContent(Tail(rows))

ExtractInit ==
    /\ hashFile = [exists |-> FALSE, body |-> {}]
    /\ processedFile = [exists |-> FALSE]
    /\ sqsQueue = EmptyMap
    /\ xpc = [e \in Extractors |-> "idle"]
    /\ xdedup = [e \in Extractors |-> TRUE]
    /\ xdata = [e \in Extractors |-> <<>>]
    /\ xidx = [e \in Extractors |-> 0]
    /\ xnew = [e \in Extractors |-> <<>>]
    /\ xunique = [e \in Extractors |-> <<>>]
    /\ xdup = [e \in Extractors |-> 0]
    /\ xreg = [e \in Extractors |-> {}]
    /\ extractCalls = 0
    /\ extractOverlap = FALSE
    /\ extractFaults = FALSE

Persisted(blob) == IF blob.exists THEN blob.body ELSE {}

\* an extract_csv that waits, after its last record, for something no step brings
AfterRecordMut(data, idx) == IF idx < Len(data) THEN "check" ELSE "waiting"

\* where extract_csv goes once record idx has been dealt with
AfterRecord(data, idx) == IF idx < Len(data) THEN "check" ELSE "update"

\* extract_csv: the file is fetched and parsed; without deduplication data is returned
XStart(e, rows, dedup) ==
    /\ xpc[e] = "idle"
    /\ extractCalls < MaxExtracts
    /\ LET data == ProcessCsvContent(rows)
       IN  /\ xdata' = [xdata EXCEPT ![e] = IF dedup THEN data ELSE <<>>]
           /\ xpc' = [xpc EXCEPT ![e] = IF ~dedup THEN "returned"
                                        ELSE IF data = <<>> THEN "update" ELSE "check"]
           /\ xunique' = [xunique EXCEPT ![e] = IF dedup THEN <<>> ELSE data]
    /\ xdedup' = [xdedup EXCEPT ![e] = dedup]
    /\ xidx' = [xidx EXCEPT ![e] = IF dedup THEN 1 ELSE 0]
    /\ xnew' = [xnew EXCEPT ![e] = <<>>]
    /\ xdup' = [xdup EXCEPT ![e] = 0]
    /\ xreg' = [xreg EXCEPT ![e] = {}]
    /\ extractCalls' = extractCalls + 1
    /\ extractOverlap' = (extractOverlap \/ \E f \in Extractors \ {e} : xpc[f] # "idle")
    /\ UNCHANGED <<hashFile, processedFile, sqsQueue, extractFaults, ledgerVars, productVars, transformVars, handlerVars>>

\* "except Exception ... raise RuntimeError" of extract_csv after a store request
\* failed: the locals are lost, last_duplicate_count keeps what it had reached
XRaise(e) ==
    /\ xpc' = [xpc EXCEPT ![e] = "raised"]
    /\ xdata' = [xdata EXCEPT ![e] = <<>>]
    /\ xidx' = [xidx EXCEPT ![e] = 0]
    /\ xnew' = [xnew EXCEPT ![e] = <<>>]
    /\ xunique' = [xunique EXCEPT ![e] = <<>>]
    /\ xreg' = [xreg EXCEPT ![e] = {}]
    /\ extractFaults' = TRUE
    /\ UNCHANGED <<hashFile, processedFile, sqsQueue, xdup, ledgerVars, productVars, transformVars>>

\* extract_csv: the get of the file fails, RuntimeError
XStartFail(e) ==
    /\ xpc[e] = "idle"
    /\ extractCalls < MaxExtracts
    /\ XRaise(e)
    /\ extractCalls' = extractCalls + 1
    /\ extractOverlap' = (extractOverlap \/ \E f \in Extractors \ {e} : xpc[f] # "idle")
    /\ xdedup' = xdedup
    /\ UNCHANGED handlerVars

\* a loop body that counts a duplicate and keeps it among the unique records
AdmitMut(e, exists) ==
    LET rec == xdata[e][xidx[e]]
    IN  /\ xnew' = [xnew EXCEPT ![e] = IF exists THEN @ ELSE Append(@, rec.record_hash)]
        /\ xunique' = [xunique EXCEPT ![e] = Append(@, rec)]
        /\ xdup' = [xdup EXCEPT ![e] = IF exists THEN @ + 1 ELSE @]
        /\ xidx' = [xidx EXCEPT ![e] = @ + 1]
        /\ xpc' = [xpc EXCEPT ![e] = AfterRecord(xdata[e], xidx[e])]

\* the loop body of extract_csv once check_record_exists has returned `exists`
Admit(e, exists) ==
    LET rec == xdata[e][xidx[e]]
    IN  /\ xnew' = [xnew EXCEPT ![e] = IF exists THEN @ ELSE Append(@, rec.record_hash)]
        /\ xunique' = [xunique EXCEPT ![e] = IF exists THEN @ ELSE Append(@, rec)]
        /\ xdup' = [xdup EXCEPT ![e] = IF exists THEN @ + 1 ELSE @]
        /\ xidx' = [xidx EXCEPT ![e] = @ + 1]
        /\ xpc' = [xpc EXCEPT ![e] = AfterRecord(xdata[e], xidx[e])]

\* a lookup that finds every hash
InRegistryMut(registry, record_hash) == TRUE

\* record_hash in hash_registry
InRegistry(registry, record_hash) == record_hash \in registry

\* check_record_exists: the registry is fetched, the hash looked up in it
XCheck(e) ==
    /\ xpc[e] = "check"
    /\ hashFile.exists
    /\ Admit(e, InRegistry(hashFile.body, xdata[e][xidx[e]].record_hash))
    /\ UNCHANGED <<hashFile, processedFile, sqsQueue, xdedup, xdata, xreg, extractCalls,
                   extractOverlap, extractFaults, ledgerVars, productVars, transformVars, handlerVars>>

\* check_record_exists: the get answers NoSuchKey; the empty registry is put next
XCheckNoSuchKey(e) ==
    /\ xpc[e] = "check"
    /\ ~hashFile.exists
    /\ xpc' = [xpc EXCEPT ![e] = "create"]
    /\ UNCHANGED <<hashFile, processedFile, sqsQueue, xdedup, xdata, xidx, xnew, xunique, xdup, xreg,
                   extractCalls, extractOverlap, extractFaults, ledgerVars, productVars, transformVars, handlerVars>>

\* a NoSuchKey handler that puts nothing
NewHashRegistryMut == [exists |-> FALSE, body |-> {}]

\* Body = json.dumps([]) under the key of the registry
NewHashRegistry == [exists |-> TRUE, body |-> {}]

\* check_record_exists: the empty registry is put, False returned
XCreate(e) ==
    /\ xpc[e] = "create"
    /\ hashFile' = NewHashRegistry
    /\ Admit(e, FALSE)
    /\ UNCHANGED <<processedFile, sqsQueue, xdedup, xdata, xreg, extractCalls,
                   extractOverlap, extractFaults, ledgerVars, productVars, transformVars, handlerVars>>

\* check_record_exists: the put in the NoSuchKey handler raises, which no clause of
\* check_record_exists catches: extract_csv raises RuntimeError
XCreateFail(e) ==
    /\ xpc[e] = "create"
    /\ XRaise(e)
    /\ UNCHANGED <<xdedup, extractCalls, extractOverlap, handlerVars>>

\* check_record_exists: the get fails with an error other than NoSuchKey, which
\* "except Exception" catches
XCheckFail(e) ==
    /\ xpc[e] = "check"
    /\ xpc' = [xpc EXCEPT ![e] = "lookup_failed"]
    /\ extractFaults' = TRUE
    /\ UNCHANGED <<hashFile, processedFile, sqsQueue, xdedup, xdata, xidx, xnew, xunique, xdup, xreg,
                   extractCalls, extractOverlap, ledgerVars, productVars, transformVars, handlerVars>>

\* check_record_exists: "except Exception" logs the error and returns False
XCheckFailOpen(e) ==
    /\ xpc[e] = "lookup_failed"
    /\ Admit(e, FALSE)
    /\ UNCHANGED <<hashFile, processedFile, sqsQueue, xdedup, xdata, xreg, extractCalls,
                   extractOverlap, extractFaults, ledgerVars, productVars, transformVars, handlerVars>>

\* update_hash_registry with no new hashes returns at once
XUpdateSkip(e) ==
    /\ xpc[e] = "update"
    /\ xnew[e] = <<>>
    /\ xpc' = [xpc EXCEPT ![e] = "store"]
    /\ UNCHANGED <<hashFile, processedFile, sqsQueue, xdedup, xdata, xidx, xnew, xunique, xdup, xreg,
                   extractCalls, extractOverlap, extractFaults, ledgerVars, productVars, transformVars, handlerVars>>

\* update_hash_registry: the registry is fetched (NoSuchKey: a new empty list)
XUpdateRead(e) ==
    /\ xpc[e] = "update"
    /\ xnew[e] # <<>>
    /\ xreg' = [xreg EXCEPT ![e] = IF hashFile.exists THEN hashFile.body ELSE {}]
    /\ xpc' = [xpc EXCEPT ![e] = "write"]
    /\ UNCHANGED <<hashFile, processedFile, sqsQueue, xdedup, xdata, xidx, xnew, xunique, xdup,
                   extractCalls, extractOverlap, extractFaults, ledgerVars, productVars, transformVars, handlerVars>>

\* hash_registry.extend(new_hashes)
ExtendRegistryMut(registry, new_hashes) == Range(new_hashes)
ExtendRegistry(registry, new_hashes) == registry \cup Range(new_hashes)

\* update_hash_registry: the extended registry is put; with the return its local
\* hash_registry is gone
XUpdateWrite(e) ==
    /\ xpc[e] = "write"
    /\ hashFile' = [exists |-> TRUE, body |-> ExtendRegistry(xreg[e], xnew[e])]
    /\ xpc' = [xpc EXCEPT ![e] = "store"]
    /\ xreg' = [xreg EXCEPT ![e] = {}]
    /\ UNCHANGED <<processedFile, sqsQueue, xdedup, xdata, xidx, xnew, xunique, xdup,
                   extractCalls, extractOverlap, extractFaults, ledgerVars, productVars, transformVars, handlerVars>>

\* update_hash_registry: its get fails: it raises, and so does extract_csv
XUpdateReadFail(e) ==
    /\ xpc[e] = "update"
    /\ xnew[e] # <<>>
    /\ XRaise(e)
    /\ UNCHANGED <<xdedup, extractCalls, extractOverlap, handlerVars>>

\* update_hash_registry: its put fails: it raises, and so does extract_csv
XUpdateWriteFail(e) ==
    /\ xpc[e] = "write"
    /\ XRaise(e)
    /\ UNCHANGED <<xdedup, extractCalls, extractOverlap, handlerVars>>

\* extract_csv: the processed artifact is put and unique_data returned: of the
\* call, unique_data and last_duplicate_count remain
XStore(e) ==
    /\ xpc[e] = "store"
    /\ processedFile' = [exists |-> TRUE]
    /\ xpc' = [xpc EXCEPT ![e] = "returned"]
    /\ xdata' = [xdata EXCEPT ![e] = <<>>]
    /\ xidx' = [xidx EXCEPT ![e] = 0]
    /\ xnew' = [xnew EXCEPT ![e] = <<>>]
    /\ UNCHANGED <<hashFile, sqsQueue, xdedup, xunique, xdup, xreg,
                   extractCalls, extractOverlap, extractFaults, ledgerVars, productVars, transformVars, handlerVars>>

\* extract_csv: the put of the processed artifact fails, RuntimeError
XStoreFail(e) ==
    /\ xpc[e] = "store"
    /\ XRaise(e)
    /\ UNCHANGED <<xdedup, extractCalls, extractOverlap, handlerVars>>

\* json.dumps(data) of send_message: the rows, in order
MessageBody(data) == [i \in DOMAIN data |-> data[i].row]

\* _process_record: sanitized_data is not empty and send_message sends it as one
\* message
XSend(e) ==
    /\ xpc[e] = "returned"
    /\ xunique[e] # <<>>
    /\ LET body == MessageBody(xunique[e])
       IN  sqsQueue' = DictPut(sqsQueue, body,
                               IF body \in DOMAIN sqsQueue THEN sqsQueue[body] + 1 ELSE 1)
    /\ xpc' = [xpc EXCEPT ![e] = "sent"]
    /\ UNCHANGED <<hashFile, processedFile, xdedup, xdata, xidx, xnew, xunique, xdup, xreg,
                   extractCalls, extractOverlap, extractFaults, ledgerVars, productVars, transformVars, handlerVars>>

\* send_message: the request fails, RuntimeError
XSendFail(e) ==
    /\ xpc[e] = "returned"
    /\ xunique[e] # <<>>
    /\ XRaise(e)
    /\ UNCHANGED <<xdedup, extractCalls, extractOverlap, handlerVars>>

\* the record is dealt with and the locals are gone; last_duplicate_count, which
\* the next call resets before anything reads it, is shown reset
XEnd(e) ==
    /\ \/ xpc[e] \in {"sent", "raised"}
       \/ xpc[e] = "returned" /\ xunique[e] = <<>>
    /\ xpc' = [xpc EXCEPT ![e] = "idle"]
    /\ xdata' = [xdata EXCEPT ![e] = <<>>]
    /\ xidx' = [xidx EXCEPT ![e] = 0]
    /\ xnew' = [xnew EXCEPT ![e] = <<>>]
    /\ xunique' = [xunique EXCEPT ![e] = <<>>]
    /\ xreg' = [xreg EXCEPT ![e] = {}]
    /\ xdup' = [xdup EXCEPT ![e] = 0]
    /\ xdedup' = [xdedup EXCEPT ![e] = TRUE]
    /\ UNCHANGED <<hashFile, processedFile, sqsQueue, extractCalls, extractOverlap, extractFaults,
                   ledgerVars, productVars, transformVars, handlerVars>>

ExtractNext ==
    \/ \E e \in Extractors, rows \in RawFiles, dedup \in BOOLEAN : XStart(e, rows, dedup)
    \/ \E e \in Extractors : XStartFail(e)
    \/ \E e \in Extractors : XCheck(e)
    \/ \E e \in Extractors : XCheckNoSuchKey(e)
    \/ \E e \in Extractors : XCreate(e)
    \/ \E e \in Extractors : XCreateFail(e)
    \/ \E e \in Extractors : XCheckFail(e)
    \/ \E e \in Extractors : XCheckFailOpen(e)
    \/ \E e \in Extractors : XUpdateSkip(e)
    \/ \E e \in Extractors : XUpdateRead(e)
    \/ \E e \in Extractors : XUpdateReadFail(e)
    \/ \E e \in Extractors : XUpdateWrite(e)
    \/ \E e \in Extractors : XUpdateWriteFail(e)
    \/ \E e \in Extractors : XStore(e)
    \/ \E e \in Extractors : XStoreFail(e)
    \/ \E e \in Extractors : XSend(e)
    \/ \E e \in Extractors : XSendFail(e)
    \/ \E e \in Extractors : XEnd(e)

\* ======================================================= the transform handler
Handlers == {"t1", "t2"}

GoodStamp == "28/04/2025 14:30"
LateStamp == "29/04/2025 09:05"
BadStamp == "2025-04-28 14:30"

\* TransactionModel.transform_timestamp: strptime of "%d/%m/%Y %H:%M"; ok = FALSE
\* stands for the ValueError
TransformTimestamp(timestamp_str) ==
    IF timestamp_str = GoodStamp
    THEN [ok |-> TRUE, date |-> "2025-04-28", time |-> "14:30:00"]
    ELSE IF timestamp_str = LateStamp
    THEN [ok |-> TRUE, date |-> "2025-04-29", time |-> "09:05:00"]
    ELSE [ok |-> FALSE, date |-> "", time |-> ""]

\* payment_method_str.strip().lower()
StripLower(str) ==
    IF str = "CASH" THEN "cash"
    ELSE IF str = " card " THEN "card"
    ELSE str

\* TransactionModel.get_payment_method; ok = FALSE stands for the ValueError
GetPaymentMethod(payment_method_str) ==
    LET m == StripLower(payment_method_str)
    IN  IF m = "cash" THEN [ok |-> TRUE, value |-> "Cash"]
        ELSE IF m = "card" THEN [ok |-> TRUE, value |-> "Card"]
        ELSE [ok |-> FALSE, value |-> ""]

\* float(str) of the decimal strings met in the orders, in ten-thousandths
FloatOf(str) ==
    IF str = "3.50" THEN 35000
    ELSE IF str = "3.504" THEN 35040
    ELSE IF str = "7.00" THEN 70000
    ELSE IF str = "2.00" THEN 20000
    ELSE IF str = "5.50" THEN 55000
    ELSE 0

\* ProductModel.extract_size_and_name
ExtractSizeAndName(name_size_str) ==
    IF name_size_str = "Regular Coffee" THEN [size |-> "Regular", name |-> "Coffee"]
    ELSE IF name_size_str = "Large Coffee" THEN [size |-> "Large", name |-> "Coffee"]
    ELSE IF name_size_str = "Regular Tea" THEN [size |-> "Regular", name |-> "Tea"]
    ELSE [size |-> "Regular", name |-> name_size_str]

\* a transform_products that takes the second part for the flavour whenever there
\* is one
TransformProductsMut(entries) ==
    [ok |-> \A i \in DOMAIN entries : Len(entries[i]) >= 2,
     products |->
        [i \in DOMAIN entries |->
            LET parts == entries[i]
                sn == ExtractSizeAndName(parts[1])
            IN  [product_name |-> sn.name,
                 product_flavour |-> IF Len(parts) >= 2 THEN parts[2] ELSE "Standard",
                 product_size |-> sn.size,
                 product_price |-> FloatOf(parts[Len(parts)])]]]

\* ProductModel.transform_products over the entries of products_str, each entry
\* given by its " - " separated parts; ok = FALSE stands for the ValueError of an
\* entry with fewer than two parts
TransformProducts(entries) ==
    [ok |-> \A i \in DOMAIN entries : Len(entries[i]) >= 2,
     products |->
        [i \in DOMAIN entries |->
            LET parts == entries[i]
                sn == ExtractSizeAndName(parts[1])
            IN  [product_name |-> sn.name,
                 product_flavour |-> IF Len(parts) = 3 THEN parts[2] ELSE "Standard",
                 product_size |-> sn.size,
                 product_price |-> FloatOf(parts[Len(parts)])]]]

\* the orders the queue delivers
OrderLeeds ==
    [transaction_timestamp |-> GoodStamp, location_name |-> "Leeds",
     payment_method |-> "CASH", products |-> << <<"Regular Coffee", "3.50">> >>,
     transaction_total |-> "3.50"]
OrderLeedsLate ==
    [transaction_timestamp |-> LateStamp, location_name |-> "Leeds",
     payment_method |-> " card ", products |-> << <<"Coffee", "Vanilla", "3.50">> >>,
     transaction_total |-> "3.50"]
OrderSpringfield ==
    [transaction_timestamp |-> GoodStamp, location_name |-> "Springfield",
     payment_method |-> "card",
     products |-> << <<"Large Coffee", "Vanilla", "3.50">>, <<"Regular Tea", "2.00">> >>,
     transaction_total |-> "5.50"]
OrderLeedsPair ==
    [transaction_timestamp |-> GoodStamp, location_name |-> "Leeds",
     payment_method |-> "card",
     products |-> << <<"Regular Coffee", "3.50">>, <<"Large Coffee", "Vanilla", "3.50">> >>,
     transaction_total |-> "7.00"]
OrderNewYork ==
    [transaction_timestamp |-> GoodStamp, location_name |-> "New York",
     payment_method |-> " card ",
     products |-> << <<"Regular Coffee", "3.50">>, <<"Coffee", "Vanilla", "3.50">> >>,
     transaction_total |-> "7.00"]
OrderBitcoin ==
    [transaction_timestamp |-> GoodStamp, location_name |-> "Leeds",
     payment_method |-> "bitcoin", products |-> << <<"Regular Coffee", "3.50">> >>,
     transaction_total |-> "3.50"]
OrderBadStamp ==
    [transaction_timestamp |-> BadStamp, location_name |-> "New York",
     payment_method |-> " card ", products |-> << <<"Regular Coffee", "3.50">> >>,
     transaction_total |-> "3.50"]
OrderIncomplete ==
    [transaction_timestamp |-> GoodStamp, location_name |-> "Leeds",
     payment_method |-> "CASH", products |-> << <<"Coffee">> >>,
     transaction_total |-> "3.50"]

\* the body of one SQS record: JSON that decodes to a list of orders, or text that
\* does not decode
JsonOf(order) == [json_ok |-> TRUE, messages |-> <<order>>]
NotJson == [json_ok |-> FALSE, messages |-> <<>>]

\* event["Records"], as the bodies of its records
Events ==
    { <<NotJson>>,
      <<JsonOf(OrderLeeds)>>,
      <<JsonOf(OrderNewYork)>>,
      <<JsonOf(OrderLeeds), NotJson, JsonOf(OrderNewYork)>>,
      <<JsonOf(OrderLeeds), JsonOf(OrderLeedsLate)>>,
      <<JsonOf(OrderSpringfield)>>,
      <<JsonOf(OrderLeeds), JsonOf(OrderBitcoin)>>,
      <<JsonOf(OrderBitcoin)>>,
      <<JsonOf(OrderNewYork), JsonOf(OrderIncomplete)>>,
      <<JsonOf(OrderLeeds), JsonOf(OrderBadStamp)>> }

\* the events of one order each, for two towns
RaceEvents == { <<JsonOf(OrderLeeds)>>, <<JsonOf(OrderNewYork)>> }

\* parse_sqs_messages giving up the rest of the batch at a body that is not JSON
RECURSIVE ParseSqsMessagesMut(_)
ParseSqsMessagesMut(raw_records) ==
    IF raw_records = <<>> THEN <<>>
    ELSE IF Head(raw_records).json_ok
         THEN Head(raw_records).messages \o ParseSqsMessagesMut(Tail(raw_records))
         ELSE <<>>

\* MessageHandler.parse_sqs_messages
RECURSIVE ParseSqsMessages(_)
ParseSqsMessages(raw_records) ==
    IF raw_records = <<>> THEN <<>>
    ELSE (IF Head(raw_records).json_ok THEN Head(raw_records).messages ELSE <<>>)
            \o ParseSqsMessages(Tail(raw_records))

\* location_name.replace(" ", "_")
FolderOf(location_name) == IF location_name = "New York" THEN "New_York" ELSE location_name

\* group_messages putting the bucket of a new key in front of the others
AddToGroupMut(groups, key, msg) ==
    IF \E i \in DOMAIN groups : groups[i].key = key
    THEN [i \in DOMAIN groups |->
            IF groups[i].key = key
            THEN [groups[i] EXCEPT !.messages = Append(@, msg)]
            ELSE groups[i]]
    ELSE <<[key |-> key, messages |-> <<msg>>]>> \o groups

\* message_groups[key].append(msg), a new key going last
AddToGroup(groups, key, msg) ==
    IF \E i \in DOMAIN groups : groups[i].key = key
    THEN [i \in DOMAIN groups |->
            IF groups[i].key = key
            THEN [groups[i] EXCEPT !.messages = Append(@, msg)]
            ELSE groups[i]]
    ELSE Append(groups, [key |-> key, messages |-> <<msg>>])

\* MessageHandler.group_messages; ok = FALSE stands for the ValueError of a
\* timestamp that does not parse
RECURSIVE GroupInto(_, _)
GroupInto(messages, groups) ==
    IF messages = <<>> THEN [ok |-> TRUE, groups |-> groups]
    ELSE LET msg == Head(messages)
             ts == TransformTimestamp(msg.transaction_timestamp)
         IN  IF ~ts.ok THEN [ok |-> FALSE, groups |-> <<>>]
             ELSE GroupInto(Tail(messages),
                            AddToGroup(groups, <<ts.date, FolderOf(msg.location_name)>>, msg))

GroupMessages(messages) == GroupInto(messages, <<>>)

BucketKeys ==
    {<<"2025-04-28", "Leeds">>, <<"2025-04-28", "New_York">>, <<"2025-04-29", "Leeds">>,
     <<"2025-04-28", "Springfield">>}

\* ---- the location registry: a dict town -> id, kept in insertion order
\* a lookup that finds no town
HasTownMut(location_registry, town) == FALSE

\* town in location_registry
HasTown(location_registry, town) ==
    \E i \in DOMAIN location_registry : location_registry[i].town = town

LocationIdOf(location_registry, town) ==
    location_registry[CHOOSE i \in DOMAIN location_registry :
                            location_registry[i].town = town].id

\* location_id = len(location_registry) + 1
NextLocationIdMut(location_registry) == Len(location_registry)
NextLocationId(location_registry) == Len(location_registry) + 1

\* location_registry[town] = id
SetLocation(location_registry, town, id) ==
    IF \E i \in DOMAIN location_registry : location_registry[i].town = town
    THEN [i \in DOMAIN location_registry |->
            IF location_registry[i].town = town
            THEN [town |-> town, id |-> id] ELSE location_registry[i]]
    ELSE Append(location_registry, [town |-> town, id |-> id])

\* generate_csv of one location and its reading by read_all_locations: the id is
\* written in decimal and read back with int(), the town is quoted where needed
CsvRowOfLocation(loc) == [id |-> loc.id, town |-> loc.town]

RECURSIVE ReadLocationRows(_, _)
ReadLocationRows(rows, location_registry) ==
    IF rows = <<>> THEN location_registry
    ELSE ReadLocationRows(Tail(rows),
                          SetLocation(location_registry, Head(rows).town, Head(rows).id))

\* read_all_locations
ReadAllLocations(blob) == IF blob.exists THEN ReadLocationRows(blob.body, <<>>) ELSE <<>>

\* update_locations: the CSV body written
LocationsCsv(location_registry) ==
    LET sorted == SortById(location_registry)
    IN  [i \in DOMAIN sorted |-> CsvRowOfLocation(sorted[i])]

\* id counts that reserve one basket id for every order
BucketCountsMut(group_messages) ==
    [ok |-> \A i \in DOMAIN group_messages : TransformProducts(group_messages[i].products).ok,
     counts |-> [t \in EntityTypes |-> Len(group_messages)]]


\* ---- process_message_group
\* total_transactions and total_baskets; ok = FALSE stands for the ValueError
\* transform_products raises
BucketCounts(group_messages) ==
    [ok |-> \A i \in DOMAIN group_messages : TransformProducts(group_messages[i].products).ok,
     counts |->
        [t \in EntityTypes |->
            IF t = "transaction" THEN Len(group_messages)
            ELSE SumSeq([i \in DOMAIN group_messages |->
                            Len(TransformProducts(group_messages[i].products).products)])]]

\* transform_data: the inner loop over the products of one order
RECURSIVE ResolveProducts(_, _)
ResolveProducts(product_list, acc) ==
    IF product_list = <<>> THEN acc
    ELSE LET prod == Head(product_list)
         IN  Only({ ResolveProducts(Tail(product_list), next) : next \in
                {[acc EXCEPT
                    !.product_registry = RegistryAfter(acc.product_registry, prod),
                    !.baskets = Append(@, [id |-> acc.basket_id,
                                           transaction_id |-> acc.transaction_id,
                                           product_id |-> ProductIdOf(acc.product_registry, prod)]),
                    !.basket_id = @ + 1]} })

\* transform_data: the loop over the orders; error names the exception raised
RECURSIVE TransformOrders(_, _)
TransformOrders(data, acc) ==
    IF data = <<>> \/ acc.error # "" THEN acc
    ELSE LET order == Head(data)
             ts == TransformTimestamp(order.transaction_timestamp)
             pay == GetPaymentMethod(order.payment_method)
             town == order.location_name
             known == HasTown(acc.location_registry, town)
             registry == IF known THEN acc.location_registry
                         ELSE SetLocation(acc.location_registry, town,
                                          NextLocationId(acc.location_registry))
             products == TransformProducts(order.products)
         IN  IF ~ts.ok THEN [acc EXCEPT !.error = "timestamp"]
             ELSE IF ~pay.ok THEN [acc EXCEPT !.error = "payment"]
             ELSE IF ~products.ok THEN [acc EXCEPT !.error = "product"]
             ELSE Only({ TransformOrders(Tail(data), next) : next \in
                   {[ResolveProducts(products.products,
                        [acc EXCEPT
                            !.location_registry = registry,
                            !.location_updated = @ \/ ~known,
                            !.transactions = Append(@,
                                [id |-> acc.transaction_id, date |-> ts.date, time |-> ts.time,
                                 location_id |-> LocationIdOf(registry, town),
                                 payment_type |-> pay.value,
                                 total_spend |-> FloatOf(order.transaction_total)])])
                     EXCEPT !.transaction_id = @ + 1]} })

\* TransformService.transform_data
TransformData(data, location_registry, product_registry, transaction_start_id, basket_start_id) ==
    LET orders == {TransformOrders(data,
                [location_registry |-> location_registry,
                 product_registry |-> product_registry,
                 transactions |-> <<>>, baskets |-> <<>>,
                 transaction_id |-> transaction_start_id, basket_id |-> basket_start_id,
                 location_updated |-> FALSE, error |-> ""])}
    IN  Only(
            { [error |-> r.error,
               location_registry |-> r.location_registry,
               product_registry |-> r.product_registry,
               transactions |-> r.transactions,
               baskets |-> r.baskets,
               location_updated |-> r.location_updated,
               products_updated |-> (r.product_registry.updated # product_registry.updated)]
              : r \in orders })

\* ---- lambda_handler
IdleTask ==
    [pc |-> "idle", groups |-> <<>>, gi |-> 0,
     location_registry |-> <<>>, product_registry |-> EmptyRegistry,
     counters |-> EmptyMap, transactions |-> <<>>, baskets |-> <<>>,
     location_updated |-> FALSE, products_updated |-> FALSE,
     any_location_updated |-> FALSE, any_products_updated |-> FALSE,
     statusCode |-> 0, error |-> ""]

\* a handler whose "except Exception" clause answers as a success does
ReturnedMut(statusCode, error) ==
    [IdleTask EXCEPT !.pc = "done", !.statusCode = IF error = "" THEN statusCode ELSE 200,
                     !.error = error]

\* the handler has returned: its locals are gone, the response remains; error
\* names the exception the "except Exception" clause caught
Returned(statusCode, error) ==
    [IdleTask EXCEPT !.pc = "done", !.statusCode = statusCode, !.error = error]

NoBlob == [exists |-> FALSE, body |-> <<>>]

NoHistory ==
    [read_all_locations |-> 0, read_all_products |-> 0,
     update_locations |-> 0, update_products |-> 0,
     buckets |-> 0, added_location |-> FALSE, added_product |-> FALSE,
     reused_location |-> FALSE]

TransformInit ==
    /\ locFile = NoBlob
    /\ txFile = [k \in BucketKeys |-> NoBlob]
    /\ basketFile = [k \in BucketKeys |-> NoBlob]
    /\ tstate = [h \in Handlers |-> IdleTask]
    /\ tbefore = [h \in Handlers |-> [t \in EntityTypes |-> 0]]
    /\ thist = [h \in Handlers |-> NoHistory]
    /\ transformCalls = 0
    /\ transformOverlap = FALSE
    /\ transformFailed = FALSE
    /\ seenTowns = {}

Running(h) == tstate[h].pc \notin {"idle", "done"}

\* the persisted ledger counters, a missing file or type counting as 0
PersistedCounters == [t \in EntityTypes |-> EnsureTypes(LoadCounters(counterFile),
                                                      [u \in EntityTypes |-> 0])[t]]

\* a loop exit that writes the products back only on the way of the locations
EnterBucketMut(task, gi) ==
    IF gi <= Len(task.groups)
    THEN IF BucketCounts(task.groups[gi].messages).ok
         THEN [task EXCEPT !.pc = "ledger_get", !.gi = gi]
         ELSE Returned(500, "product")
    ELSE IF task.any_location_updated THEN [task EXCEPT !.pc = "update_locations", !.gi = gi]
    ELSE Returned(200, "")

\* the loop of lambda_handler reaches bucket gi: process_message_group computes
\* the id counts, or the loop is over and the catalogs that changed are flushed
EnterBucket(task, gi) ==
    IF gi <= Len(task.groups)
    THEN IF BucketCounts(task.groups[gi].messages).ok
         THEN [task EXCEPT !.pc = "ledger_get", !.gi = gi]
         ELSE Returned(500, "product")
    ELSE IF task.any_location_updated THEN [task EXCEPT !.pc = "update_locations", !.gi = gi]
    ELSE IF task.any_products_updated THEN [task EXCEPT !.pc = "update_products", !.gi = gi]
    ELSE Returned(200, "")

\* the history that follows from the step of h to the task `next`
Noted(h, next) ==
    /\ tbefore' = [tbefore EXCEPT ![h] = IF next.pc = "ledger_get" THEN PersistedCounters ELSE @]
    /\ transformFailed' = (transformFailed \/ next.statusCode = 500)
    /\ seenTowns' = IF transformFailed' THEN {} ELSE seenTowns

\* the history of the calls of h after a step of h to the task `next`
Counted(h, next, hist) ==
    thist' = [thist EXCEPT ![h] = IF next.statusCode = 500 THEN NoHistory ELSE hist]

\* lambda_handler up to the first store request: parse, 204 on no messages, group
TStart(h, event) ==
    /\ tstate[h].pc = "idle"
    /\ transformCalls < MaxInvocations
    /\ LET messages == ParseSqsMessages(event)
           grouped == GroupMessages(messages)
           next == IF messages = <<>> THEN Returned(204, "")
                   ELSE IF ~grouped.ok THEN Returned(500, "timestamp")
                   ELSE [IdleTask EXCEPT !.pc = "read_locations", !.groups = grouped.groups]
       IN  /\ tstate' = [tstate EXCEPT ![h] = next]
           /\ transformFailed' = (transformFailed \/ next.statusCode = 500)
           /\ transformOverlap' = (transformOverlap \/ \E g \in Handlers \ {h} : Running(g))
           /\ seenTowns' = IF transformFailed' \/ transformOverlap' THEN {}
                            ELSE seenTowns \cup {messages[i].location_name : i \in DOMAIN messages}
    /\ transformCalls' = transformCalls + 1
    /\ UNCHANGED <<locFile, txFile, basketFile, tbefore, thist, ledgerVars, productVars, extractVars, handlerVars>>

\* registry_service.read_all_locations()
TReadLocations(h) ==
    /\ tstate[h].pc = "read_locations"
    /\ tstate' = [tstate EXCEPT ![h] = [@ EXCEPT !.pc = "read_products",
                                          !.location_registry = ReadAllLocations(locFile)]]
    /\ thist' = [thist EXCEPT ![h].read_all_locations = @ + 1]
    /\ UNCHANGED <<locFile, txFile, basketFile, tbefore, transformCalls, transformOverlap,
                   transformFailed, seenTowns, ledgerVars, productVars, extractVars, handlerVars>>

\* registry_service.read_all_products(), then the loop begins
TReadProducts(h) ==
    /\ tstate[h].pc = "read_products"
    /\ LET next == EnterBucket([tstate[h] EXCEPT !.product_registry = ReadAllProducts(prodFile)], 1)
       IN  /\ tstate' = [tstate EXCEPT ![h] = next]
           /\ Noted(h, next)
           /\ Counted(h, next, [thist[h] EXCEPT !.read_all_products = @ + 1])
    /\ UNCHANGED <<locFile, txFile, basketFile, transformCalls, transformOverlap,
                   ledgerVars, productVars, extractVars, handlerVars>>

\* get_next_id_batch: read_json of the ledger
TLedgerGet(h) ==
    /\ tstate[h].pc = "ledger_get"
    /\ tstate' = [tstate EXCEPT ![h] = [@ EXCEPT !.pc = "ledger_put",
                                          !.counters = LoadCounters(counterFile)]]
    /\ UNCHANGED <<locFile, txFile, basketFile, tbefore, thist, transformCalls, transformOverlap,
                   transformFailed, seenTowns, ledgerVars, productVars, extractVars, handlerVars>>

\* get_next_id_batch: store_data of the advanced ledger; process_message_group
\* then calls transform_data with the ids it got
TLedgerPut(h) ==
    /\ tstate[h].pc = "ledger_put"
    /\ LET task == tstate[h]
           group_messages == task.groups[task.gi].messages
           id_counts == BucketCounts(group_messages).counts
           next_ids == ReserveResult(task.counters, id_counts)
       IN  \E r \in {TransformData(group_messages, task.location_registry,
                                   task.product_registry,
                                   next_ids["transaction"], next_ids["basket"])} :
           LET next == IF r.error # "" THEN Returned(500, r.error)
                   ELSE [task EXCEPT !.pc = "store_transactions",
                                     !.counters = EmptyMap,
                                     !.location_registry = r.location_registry,
                                     !.product_registry = r.product_registry,
                                     !.transactions = r.transactions,
                                     !.baskets = r.baskets,
                                     !.location_updated = r.location_updated,
                                     !.products_updated = r.products_updated]
       IN  /\ counterFile' = [exists |-> TRUE, body |-> ReserveCounters(task.counters, id_counts)]
           /\ tstate' = [tstate EXCEPT ![h] = next]
           /\ transformFailed' = (transformFailed \/ next.statusCode = 500)
           /\ seenTowns' = IF transformFailed' THEN {} ELSE seenTowns
           /\ Counted(h, next,
                [thist[h] EXCEPT
                    !.added_location = @ \/ Len(r.location_registry) > Len(task.location_registry),
                    !.added_product = @ \/ Len(r.product_registry.products)
                                              > Len(task.product_registry.products),
                    !.reused_location = @ \/ \E i \in DOMAIN group_messages :
                        /\ HasTown(task.location_registry, group_messages[i].location_name)
                        /\ ~HasTown(ReadAllLocations(locFile), group_messages[i].location_name)])
    /\ UNCHANGED <<locFile, txFile, basketFile, tbefore, transformCalls, transformOverlap,
                   ledgerLocals, productVars, extractVars, handlerVars>>

\* process_message_group: store_data of transactions.csv of the bucket
TStoreTransactions(h) ==
    /\ tstate[h].pc = "store_transactions"
    /\ LET task == tstate[h]
       IN  /\ txFile' = [txFile EXCEPT ![task.groups[task.gi].key] =
                            [exists |-> TRUE, body |-> task.transactions]]
           /\ tstate' = [tstate EXCEPT ![h] = [task EXCEPT !.pc = "store_baskets",
                                                           !.transactions = <<>>]]
    /\ UNCHANGED <<locFile, basketFile, tbefore, thist, transformCalls, transformOverlap,
                   transformFailed, seenTowns, ledgerVars, productVars, extractVars, handlerVars>>

\* process_message_group: store_data of baskets.csv of the bucket; back in the
\* loop the flags are folded and the next bucket begins
TStoreBaskets(h) ==
    /\ tstate[h].pc = "store_baskets"
    /\ LET task == tstate[h]
           next == EnterBucket(
                     [task EXCEPT !.baskets = <<>>,
                                  !.any_location_updated = @ \/ task.location_updated,
                                  !.any_products_updated = @ \/ task.products_updated,
                                  !.location_updated = FALSE,
                                  !.products_updated = FALSE],
                     task.gi + 1)
       IN  /\ basketFile' = [basketFile EXCEPT ![task.groups[task.gi].key] =
                                [exists |-> TRUE, body |-> task.baskets]]
           /\ tstate' = [tstate EXCEPT ![h] = next]
           /\ Noted(h, next)
           /\ Counted(h, next, [thist[h] EXCEPT !.buckets = @ + 1])
    /\ UNCHANGED <<locFile, txFile, transformCalls, transformOverlap,
                   ledgerVars, productVars, extractVars, handlerVars>>

\* registry_service.update_locations(location_registry)
TUpdateLocations(h) ==
    /\ tstate[h].pc = "update_locations"
    /\ locFile' = [exists |-> TRUE, body |-> LocationsCsv(tstate[h].location_registry)]
    /\ tstate' = [tstate EXCEPT ![h] =
                    IF @.any_products_updated THEN [@ EXCEPT !.pc = "update_products"]
                    ELSE Returned(200, "")]
    /\ thist' = [thist EXCEPT ![h].update_locations = @ + 1]
    /\ UNCHANGED <<txFile, basketFile, tbefore, transformCalls, transformOverlap,
                   transformFailed, seenTowns, ledgerVars, productVars, extractVars, handlerVars>>

\* registry_service.update_products(product_registry["products"])
TUpdateProducts(h) ==
    /\ tstate[h].pc = "update_products"
    /\ prodFile' = [exists |-> TRUE, body |-> ProductsCsv(tstate[h].product_registry.products)]
    /\ tstate' = [tstate EXCEPT ![h] = Returned(200, "")]
    /\ thist' = [thist EXCEPT ![h].update_products = @ + 1]
    /\ UNCHANGED <<locFile, txFile, basketFile, tbefore, transformCalls, transformOverlap,
                   transformFailed, seenTowns, ledgerVars, productLocals, extractVars, handlerVars>>

\* the store request the invocation stands at fails with an error (other than
\* NoSuchKey for a get): nothing below lambda_handler handles it, which answers 500
TStoreError(h) ==
    /\ Running(h)
    /\ tstate' = [tstate EXCEPT ![h] = Returned(500, "store")]
    /\ transformFailed' = TRUE
    /\ seenTowns' = {}
    /\ thist' = [thist EXCEPT ![h] = NoHistory]
    /\ UNCHANGED <<locFile, txFile, basketFile, tbefore, transformCalls, transformOverlap,
                   ledgerVars, productVars, extractVars, handlerVars>>

\* the response has been delivered
TEnd(h) ==
    /\ tstate[h].pc = "done"
    /\ tstate' = [tstate EXCEPT ![h] = IdleTask]
    /\ tbefore' = [tbefore EXCEPT ![h] = [t \in EntityTypes |-> 0]]
    /\ thist' = [thist EXCEPT ![h] = NoHistory]
    /\ UNCHANGED <<locFile, txFile, basketFile, transformCalls, transformOverlap,
                   transformFailed, seenTowns, ledgerVars, productVars, extractVars, handlerVars>>

TransformNext ==
    \/ \E h \in Handlers, event \in Events : TStart(h, event)
    \/ \E h \in Handlers : TReadLocations(h)
    \/ \E h \in Handlers : TReadProducts(h)
    \/ \E h \in Handlers : TLedgerGet(h)
    \/ \E h \in Handlers : TLedgerPut(h)
    \/ \E h \in Handlers : TStoreTransactions(h)
    \/ \E h \in Handlers : TStoreBaskets(h)
    \/ \E h \in Handlers : TUpdateLocations(h)
    \/ \E h \in Handlers : TUpdateProducts(h)
    \/ \E h \in Handlers : TStoreError(h)
    \/ \E h \in Handlers : TEnd(h)

\* the invocations of a deployment that delivers one event at a time (a reserved
\* concurrency of 1): every invocation runs in the one execution environment
TransformSeqNext ==
    \/ \E event \in Events : TStart("t1", event)
    \/ TReadLocations("t1")
    \/ TReadProducts("t1")
    \/ TLedgerGet("t1")
    \/ TLedgerPut("t1")
    \/ TStoreTransactions("t1")
    \/ TStoreBaskets("t1")
    \/ TUpdateLocations("t1")
    \/ TUpdateProducts("t1")
    \/ TStoreError("t1")
    \/ TEnd("t1")

\* the events whose buckets hold several orders: two orders of one bucket in two
\* records, a list of orders beside an order of another bucket, a bucket whose
\* second order is rejected
BucketEvents ==
    { <<JsonOf(OrderLeedsPair), JsonOf(OrderLeeds)>>,
      <<[json_ok |-> TRUE, messages |-> <<OrderLeeds, OrderLeedsPair>>], JsonOf(OrderNewYork)>>,
      <<JsonOf(OrderLeedsPair), JsonOf(OrderBitcoin)>>,
      <<JsonOf(OrderLeedsLate)>> }

\* one execution environment given one event after the other, each of them with
\* buckets of several orders
TransformBucketsNext ==
    \/ \E event \in BucketEvents : TStart("t1", event)
    \/ TReadLocations("t1")
    \/ TReadProducts("t1")
    \/ TLedgerGet("t1")
    \/ TLedgerPut("t1")
    \/ TStoreTransactions("t1")
    \/ TStoreBaskets("t1")
    \/ TUpdateLocations("t1")
    \/ TUpdateProducts("t1")
    \/ TStoreError("t1")
    \/ TEnd("t1")

\* the extract_csv calls of a deployment that delivers one file at a time, with a
\* store and a queue that answer every request
ExtractSeqNext ==
    \/ \E rows \in SeqFiles, dedup \in BOOLEAN : XStart("e1", rows, dedup)
    \/ XCheck("e1")
    \/ XCheckNoSuchKey("e1")
    \/ XCreate("e1")
    \/ XUpdateSkip("e1")
    \/ XUpdateRead("e1")
    \/ XUpdateWrite("e1")
    \/ XStore("e1")
    \/ XSend("e1")
    \/ XEnd("e1")

\* two execution environments receiving events of one order each, with a store
\* that answers every request
TransformRaceNext ==
    \/ \E h \in Handlers, event \in RaceEvents : TStart(h, event)
    \/ \E h \in Handlers : TReadLocations(h)
    \/ \E h \in Handlers : TReadProducts(h)
    \/ \E h \in Handlers : TLedgerGet(h)
    \/ \E h \in Handlers : TLedgerPut(h)
    \/ \E h \in Handlers : TStoreTransactions(h)
    \/ \E h \in Handlers : TStoreBaskets(h)
    \/ \E h \in Handlers : TUpdateLocations(h)
    \/ \E h \in Handlers : TUpdateProducts(h)
    \/ \E h \in Handlers : TEnd(h)

\* ============================================== the handlers around the services
\* ---------------------------------------------------------- the extract handler
RawBucket == "raw-data"         \* config["RAW_DATA_BUCKET"]
OtherBucket == "clean-data"

\* object keys: the directories of the path, the base name and the extension
KeyOrders == [path |-> <<>>, base |-> "orders", ext |-> "csv"]
KeyLate == [path |-> <<>>, base |-> "late", ext |-> "csv"]
KeyShort == [path |-> <<>>, base |-> "short", ext |-> "csv"]
KeyNotes == [path |-> <<>>, base |-> "notes", ext |-> "txt"]
KeyProcessed == [path |-> <<"processed">>, base |-> "orders", ext |-> "csv"]
KeyNested == [path |-> <<"archive", "processed">>, base |-> "orders", ext |-> "csv"]
KeyUnprocessed == [path |-> <<"unprocessed">>, base |-> "late", ext |-> "csv"]

\* the rows of the raw object under a key
FileOf(key) ==
    CASE key.base = "orders" -> <<RowA, RowB>>
      [] key.base = "late" -> <<RowShort, RowA>>
      [] key.base = "short" -> <<RowShort>>
      [] OTHER -> <<>>

S3Record(eventName, bucket, key) == [eventName |-> eventName, bucket |-> bucket, key |-> key]

RecOrders == S3Record("ObjectCreated:Put", RawBucket, KeyOrders)
RecLate == S3Record("ObjectCreated:Put", RawBucket, KeyLate)
RecShort == S3Record("ObjectCreated:Copy", RawBucket, KeyShort)
RecNotes == S3Record("ObjectCreated:Put", RawBucket, KeyNotes)
RecForeign == S3Record("ObjectCreated:Put", OtherBucket, KeyOrders)
RecProcessed == S3Record("ObjectCreated:Put", RawBucket, KeyProcessed)
RecNested == S3Record("ObjectCreated:Put", RawBucket, KeyNested)
RecUnprocessed == S3Record("ObjectCreated:Put", RawBucket, KeyUnprocessed)
RecRemoved == S3Record("ObjectRemoved:Delete", RawBucket, KeyProcessed)

\* the events delivered to the extract handler: with or without a 'Records' key
S3Event(records) == [has_records |-> TRUE, records |-> records]
NoRecordsEvent == [has_records |-> FALSE, records |-> <<>>]

ExtractEvents ==
    { NoRecordsEvent,
      S3Event(<<>>),
      S3Event(<<RecOrders>>),
      S3Event(<<RecLate>>),
      S3Event(<<RecOrders, RecLate>>),
      S3Event(<<RecProcessed>>),
      S3Event(<<RecProcessed, RecNested>>),
      S3Event(<<RecProcessed, RecOrders>>),
      S3Event(<<RecUnprocessed, RecLate>>),
      S3Event(<<RecRemoved, RecShort>>),
      S3Event(<<RecNotes, RecForeign, RecShort>>) }

\* a segment of a path that ends in "processed", so that the segment and the
\* separator after it hold PROCESSED_DIR ("processed/")
EndsWithProcessed(segment) == segment \in {"processed", "unprocessed"}

\* PROCESSED_DIR in key
ContainsProcessedDir(key) == \E i \in DOMAIN key.path : EndsWithProcessed(key.path[i])

\* key.startswith("processed/")
StartsWithProcessed(key) == key.path # <<>> /\ key.path[1] = "processed"

\* an artifact written beside the raw file instead of under processed/
ProcessedKeyMut(key) == [path |-> <<>>, base |-> key.base, ext |-> key.ext]

\* a filter that lets every key through
ShouldProcessFileMut(key) == TRUE

\* should_process_file
ShouldProcessFile(key) == ~ContainsProcessedDir(key)

\* record.get('eventName', '').startswith('ObjectCreated:')
IsObjectCreated(record) == record.eventName \in {"ObjectCreated:Put", "ObjectCreated:Copy"}

\* the loop of lambda_handler over event['Records']: records of other event
\* names are kept
KeepRecord(record) == IF IsObjectCreated(record) THEN ShouldProcessFile(record.key) ELSE TRUE

FilterRecords(records) == SelectSeq(records, KeepRecord)

\* the three early returns of _process_record
SkippedRecord(record) ==
    \/ record.bucket # RawBucket
    \/ StartsWithProcessed(record.key)
    \/ record.key.ext # "csv"

\* extract_csv, run from its first line to its return with a store that answers:
\* the rows returned, last_duplicate_count and the fingerprint set it leaves
ExtractCsv(rows, blob, dedup) ==
    LET data == ProcessCsvContent(rows)
        registry == Persisted(blob)
        IsNew(record) == ~InRegistry(registry, record.record_hash)
        unique_data == SelectSeq(data, IsNew)
        new_hashes == [i \in DOMAIN unique_data |-> unique_data[i].record_hash]
    IN  IF dedup
        THEN [data |-> unique_data,
              last_duplicate_count |-> Len(data) - Len(unique_data),
              hashFile |-> IF data = <<>> THEN blob
                           ELSE [exists |-> TRUE, body |-> ExtendRegistry(registry, new_hashes)]]
        ELSE [data |-> data, last_duplicate_count |-> 0, hashFile |-> blob]

\* the counters as process_event finds them: they are kept from the event before
KeepCountsMut(h) == h

\* "Reset counters for this event"
ResetCounts(h) == [h EXCEPT !.processed_count = 0, !.duplicate_count = 0]

Response(statusCode, message, processed, duplicates) ==
    [statusCode |-> statusCode, message |-> message,
     processed |-> processed, duplicates |-> duplicates]

NoResponse == Response(0, "", 0, 0)

\* the number of rows held by the messages of the queue
RECURSIVE QueueRows(_)
QueueRows(queue) ==
    IF DOMAIN queue = {} THEN 0
    ELSE LET body == CHOOSE b \in DOMAIN queue : TRUE
         IN  queue[body] * Len(body)
                + QueueRows([b \in DOMAIN queue \ {body} |-> queue[b]])

\* processed_key = f"processed/{os.path.basename(key)}"
ProcessedKey(key) == [path |-> <<"processed">>, base |-> key.base, ext |-> key.ext]

NoNotifications == [pending |-> <<>>, uploads |-> 0]

\* the put_object of processed/<file> into the raw bucket: S3 notes an
\* ObjectCreated event for the new object
Notified(n, key) ==
    [n EXCEPT !.pending = Append(@, S3Record("ObjectCreated:Put", RawBucket, ProcessedKey(key)))]

\* an execution environment of the extract handler before its first event
HandlerStart(dedup) ==
    [pc |-> "idle", perform_deduplication |-> dedup, records |-> <<>>,
     processed_count |-> 0, duplicate_count |-> 0, last_duplicate_count |-> 0,
     response |-> NoResponse, calls |-> 0,
     event |-> NoRecordsEvent, called |-> FALSE, passed |-> <<>>, queued_before |-> 0]

\* lambda_handler up to the first record handed to _process_record
Started(h, event) ==
    LET filtered == IF event.has_records THEN FilterRecords(event.records)
                    ELSE event.records
        begun == [h EXCEPT !.calls = @ + 1, !.event = event,
                           !.queued_before = QueueRows(sqsQueue)]
    IN  IF event.has_records /\ filtered = <<>>
        THEN [begun EXCEPT !.pc = "done", !.called = FALSE, !.passed = <<>>,
                           !.response = Response(200, "No files to process", 0, 0)]
        ELSE IF filtered = <<>>
        THEN [ResetCounts(begun) EXCEPT
                   !.pc = "done", !.called = TRUE, !.passed = filtered,
                   !.response = Response(500, "Error: No records found in event.", 0, 0)]
        ELSE [ResetCounts(begun) EXCEPT
                   !.pc = "process_event", !.called = TRUE, !.passed = filtered,
                   !.records = filtered]

\* an event is delivered to an idle execution environment
HStart(event) ==
    /\ xhandler.pc = "idle"
    /\ xhandler.calls < MaxEvents
    /\ xhandler' = Started(xhandler, event)
    /\ UNCHANGED <<ledgerVars, productVars, extractVars, transformVars, lhandler, chandler, observed, mstage, notifications>>

\* the handler's answer once process_event has returned
Completed(h) ==
    [h EXCEPT !.pc = "done",
              !.response = Response(200, "CSV extraction complete", h.processed_count,
                                    h.duplicate_count)]

AfterProcessRecord(h) ==
    IF Len(h.records) > 1 THEN [h EXCEPT !.records = Tail(@)]
    ELSE Completed([h EXCEPT !.records = <<>>])

\* _process_record of the next record, with a store and a queue that answer
HRecord ==
    /\ xhandler.pc = "process_event"
    /\ LET record == Head(xhandler.records)
           result == ExtractCsv(FileOf(record.key), hashFile, xhandler.perform_deduplication)
       IN  IF SkippedRecord(record)
           THEN /\ xhandler' = AfterProcessRecord(xhandler)
                /\ UNCHANGED <<hashFile, processedFile, sqsQueue, notifications>>
           ELSE /\ hashFile' = result.hashFile
                /\ processedFile' = IF xhandler.perform_deduplication THEN [exists |-> TRUE]
                                    ELSE processedFile
                /\ notifications' = IF xhandler.perform_deduplication
                                     THEN Notified(notifications, record.key)
                                     ELSE notifications
                /\ sqsQueue' =
                     IF result.data = <<>> THEN sqsQueue
                     ELSE LET body == MessageBody(result.data)
                          IN  DictPut(sqsQueue, body,
                                      IF body \in DOMAIN sqsQueue THEN sqsQueue[body] + 1
                                      ELSE 1)
                /\ xhandler' = AfterProcessRecord(
                     [xhandler EXCEPT !.last_duplicate_count = result.last_duplicate_count,
                                      !.duplicate_count = @ + result.last_duplicate_count,
                                      !.processed_count = @ + Len(result.data)])
    /\ UNCHANGED <<xpc, xdedup, xdata, xidx, xnew, xunique, xdup, xreg, extractCalls,
                   extractOverlap, extractFaults, ledgerVars, productVars, transformVars,
                   lhandler, chandler, observed, mstage>>

Failed(h) ==
    [h EXCEPT !.pc = "done", !.records = <<>>,
              !.response = Response(500, "Error: Failed to extract CSV from S3", 0, 0)]

\* get_object of the raw file fails: extract_csv raises RuntimeError, which
\* lambda_handler answers with 500
HFetchFail ==
    /\ xhandler.pc = "process_event"
    /\ ~SkippedRecord(Head(xhandler.records))
    /\ xhandler' = Failed([xhandler EXCEPT !.last_duplicate_count = 0])
    /\ UNCHANGED <<ledgerVars, productVars, extractVars, transformVars, lhandler, chandler, observed, mstage, notifications>>

\* send_message fails after extract_csv has returned rows: the fingerprints are
\* recorded, nothing is queued, and lambda_handler answers with 500
HSendFail ==
    /\ xhandler.pc = "process_event"
    /\ ~SkippedRecord(Head(xhandler.records))
    /\ LET record == Head(xhandler.records)
           result == ExtractCsv(FileOf(record.key), hashFile, xhandler.perform_deduplication)
       IN  /\ result.data # <<>>
           /\ hashFile' = result.hashFile
           /\ processedFile' = IF xhandler.perform_deduplication THEN [exists |-> TRUE]
                               ELSE processedFile
           /\ notifications' = IF xhandler.perform_deduplication
                                THEN Notified(notifications, record.key)
                                ELSE notifications
           /\ xhandler' = Failed(
                [xhandler EXCEPT !.last_duplicate_count = result.last_duplicate_count,
                                 !.duplicate_count = @ + result.last_duplicate_count])
    /\ UNCHANGED <<sqsQueue, xpc, xdedup, xdata, xidx, xnew, xunique, xdup, xreg, extractCalls,
                   extractOverlap, extractFaults, ledgerVars, productVars, transformVars,
                   lhandler, chandler, observed, mstage>>

\* the response has been delivered; the execution environment keeps the
\* attributes of its singletons
HEnd ==
    /\ xhandler.pc = "done"
    /\ xhandler' = [xhandler EXCEPT !.pc = "idle", !.response = NoResponse,
                                    !.event = NoRecordsEvent, !.called = FALSE,
                                    !.passed = <<>>]
    /\ UNCHANGED <<ledgerVars, productVars, extractVars, transformVars, lhandler, chandler, observed, mstage, notifications>>

ExtractHandlerNext ==
    \/ \E event \in ExtractEvents : HStart(event)
    \/ HRecord
    \/ HFetchFail
    \/ HSendFail
    \/ HEnd

\* ---------------------------------- the raw bucket notifying the extract handler
MaxUploads == 2     \* raw files uploaded in one behaviour

UploadKeys == {KeyOrders, KeyLate, KeyShort, KeyNotes, KeyUnprocessed}

\* a raw file is put into the raw bucket: S3 notes an ObjectCreated event
FUpload(key) ==
    /\ notifications.uploads < MaxUploads
    /\ notifications' = [notifications EXCEPT
            !.uploads = @ + 1,
            !.pending = Append(@, S3Record("ObjectCreated:Put", RawBucket, key))]
    /\ UNCHANGED <<ledgerVars, productVars, extractVars, transformVars,
                   xhandler, lhandler, chandler, observed, mstage>>

\* S3 invokes the function with the oldest notification, one record an event
FDeliver ==
    /\ xhandler.pc = "idle"
    /\ notifications.pending # <<>>
    /\ xhandler' = [Started(xhandler, S3Event(<<Head(notifications.pending)>>))
                        EXCEPT !.calls = xhandler.calls]
    /\ notifications' = [notifications EXCEPT !.pending = Tail(@)]
    /\ UNCHANGED <<ledgerVars, productVars, extractVars, transformVars,
                   lhandler, chandler, observed, mstage>>

FeedbackNext ==
    \/ \E key \in UploadKeys : FUpload(key)
    \/ FDeliver
    \/ HRecord
    \/ HFetchFail
    \/ HSendFail
    \/ HEnd

\* S3 delivers every notification and Lambda runs every invocation on
FeedbackFairness == WF_vars(FDeliver \/ HRecord \/ HFetchFail \/ HSendFail \/ HEnd)

\* ------------------------------------------------------------- the load handler
\* keys of the clean-data bucket
LKeyLocations == [path |-> <<"locations">>, base |-> "locations", ext |-> "csv"]
LKeyProducts == [path |-> <<"products">>, base |-> "products", ext |-> "csv"]
LKeyTransactions == [path |-> <<"transactions", "Leeds", "2025-04-28">>, base |-> "transactions", ext |-> "csv"]
LKeyBaskets == [path |-> <<"baskets", "Leeds", "2025-04-28">>, base |-> "baskets", ext |-> "csv"]
LKeyCounters == [path |-> <<"metadata">>, base |-> "id_counters", ext |-> "json"]
LKeyManifest == [path |-> <<"transactions">>, base |-> "manifest", ext |-> "json"]
LKeyReport == [path |-> <<"exports">>, base |-> "report", ext |-> "csv"]
LKeyNotes == [path |-> <<>>, base |-> "notes", ext |-> "txt"]

\* the events delivered to the load handler, as the keys of their records
LoadEvents ==
    { <<>>,
      <<LKeyLocations>>,
      <<LKeyTransactions, LKeyBaskets>>,
      <<LKeyProducts, LKeyTransactions>>,
      <<LKeyNotes, LKeyCounters, LKeyLocations>>,
      <<LKeyManifest, LKeyReport, LKeyBaskets>> }

RedshiftTables == {"locations", "products", "transactions", "baskets"}

NoTable == ""   \* None

\* determine_table_name
DetermineTableName(key) ==
    IF key = LKeyCounters THEN NoTable
    ELSE IF key = LKeyLocations THEN "locations"
    ELSE IF key = LKeyProducts THEN "products"
    ELSE IF key.path # <<>> /\ key.path[1] \in {"transactions", "baskets"} /\ key.ext = "csv"
         THEN key.path[1]
    ELSE NoTable

\* the two "continue" statements of the loop: neither .csv nor .json, or no table
SkippedKey(key) == key.ext \notin {"csv", "json"} \/ DetermineTableName(key) = NoTable

\* "TRUNCATE TABLE" of load_csv_to_redshift, committed before the COPY
Truncated(tables, table_name) ==
    IF table_name \in {"locations", "products"} THEN [tables EXCEPT ![table_name] = <<>>]
    ELSE tables

LoadResponse(statusCode, count) == [statusCode |-> statusCode, count |-> count]

LoaderStart ==
    [pc |-> "idle", records |-> <<>>, files_processed |-> 0,
     response |-> LoadResponse(0, 0), calls |-> 0,
     tables |-> [t \in RedshiftTables |-> <<>>],
     event_size |-> 0, visited |-> 0, copies |-> 0, failures |-> 0]

\* the loop is left: the handler answers 200 with the count
LoadCompleted(h) ==
    [h EXCEPT !.pc = "done", !.response = LoadResponse(200, h.files_processed)]

\* the next record of the loop, or the return after the last one
NextRecord(h) ==
    LET after == [h EXCEPT !.records = Tail(@), !.visited = @ + 1]
    IN  IF Len(h.records) > 1 THEN after ELSE LoadCompleted(after)

\* a failed load that reaches the handler's outer except clause
LoadFailedMut(h) ==
    [h EXCEPT !.pc = "done", !.records = <<>>, !.failures = @ + 1,
              !.response = LoadResponse(500, 0)]

\* "except Exception as load_error": the error is logged and the loop goes on
LoadFailed(h) == NextRecord([h EXCEPT !.failures = @ + 1])

\* lambda_handler up to the loop: get_redshift_config answers or raises
LStart(event, config_ok) ==
    /\ lhandler.pc = "idle"
    /\ lhandler.calls < MaxEvents
    /\ LET begun == [lhandler EXCEPT !.calls = @ + 1, !.files_processed = 0,
                                     !.records = event, !.event_size = Len(event),
                                     !.visited = 0, !.copies = 0, !.failures = 0]
       IN  lhandler' = IF ~config_ok
                       THEN [begun EXCEPT !.pc = "done", !.records = <<>>,
                                          !.response = LoadResponse(500, 0)]
                       ELSE IF event = <<>> THEN LoadCompleted(begun)
                       ELSE [begun EXCEPT !.pc = "loop"]
    /\ UNCHANGED <<ledgerVars, productVars, extractVars, transformVars, xhandler, chandler, observed, mstage, notifications>>

\* one turn of the loop: the record is skipped, or its file is copied into its table
LRecord ==
    /\ lhandler.pc = "loop"
    /\ LET key == Head(lhandler.records)
           table_name == DetermineTableName(key)
       IN  lhandler' =
             IF SkippedKey(key) THEN NextRecord(lhandler)
             ELSE NextRecord(
                    [lhandler EXCEPT !.tables = [Truncated(@, table_name) EXCEPT
                                                    ![table_name] = Append(@, key)],
                                     !.copies = @ + 1,
                                     !.files_processed = @ + 1])
    /\ UNCHANGED <<ledgerVars, productVars, extractVars, transformVars, xhandler, chandler, observed, mstage, notifications>>

\* load_csv_to_redshift raises before anything is committed (psycopg2.connect or
\* the TRUNCATE fails)
LConnectFail ==
    /\ lhandler.pc = "loop"
    /\ ~SkippedKey(Head(lhandler.records))
    /\ lhandler' = LoadFailed(lhandler)
    /\ UNCHANGED <<ledgerVars, productVars, extractVars, transformVars, xhandler, chandler, observed, mstage, notifications>>

\* load_csv_to_redshift raises at the COPY: a TRUNCATE before it is committed
LCopyFail ==
    /\ lhandler.pc = "loop"
    /\ ~SkippedKey(Head(lhandler.records))
    /\ lhandler' = LoadFailed(
            [lhandler EXCEPT !.tables = Truncated(@, DetermineTableName(Head(lhandler.records)))])
    /\ UNCHANGED <<ledgerVars, productVars, extractVars, transformVars, xhandler, chandler, observed, mstage, notifications>>

\* the response has been delivered
LEnd ==
    /\ lhandler.pc = "done"
    /\ lhandler' = [lhandler EXCEPT !.pc = "idle", !.response = LoadResponse(0, 0)]
    /\ UNCHANGED <<ledgerVars, productVars, extractVars, transformVars, xhandler, chandler, observed, mstage, notifications>>

LoadHandlerNext ==
    \/ \E event \in LoadEvents, config_ok \in BOOLEAN : LStart(event, config_ok)
    \/ LRecord
    \/ LConnectFail
    \/ LCopyFail
    \/ LEnd

\* ---------------------------------------------------- the create-tables handler
RequestTypes == {"Create", "Update", "Delete"}

CreatorStart ==
    [pc |-> "idle", request_type |-> "", responses |-> <<>>, attempts |-> 0,
     config |-> "none", schema |-> "none", escaped |-> FALSE, calls |-> 0]

\* lambda_handler up to the first call it makes
CStart(request_type) ==
    /\ chandler.pc = "idle"
    /\ chandler.calls < MaxEvents
    /\ chandler' = [CreatorStart EXCEPT !.calls = chandler.calls + 1,
                                        !.request_type = request_type,
                                        !.pc = IF request_type = "Delete" THEN "send_success"
                                               ELSE "config"]
    /\ UNCHANGED <<ledgerVars, productVars, extractVars, transformVars, xhandler, lhandler, observed, mstage, notifications>>

\* get_config and get_parameter_from_ssm answer
CConfig ==
    /\ chandler.pc = "config"
    /\ chandler' = [chandler EXCEPT !.pc = "schema", !.config = "fetched"]
    /\ UNCHANGED <<ledgerVars, productVars, extractVars, transformVars, xhandler, lhandler, observed, mstage, notifications>>

\* get_config or get_parameter_from_ssm raises
CConfigFail ==
    /\ chandler.pc = "config"
    /\ chandler' = [chandler EXCEPT !.pc = "send_failed", !.config = "raised"]
    /\ UNCHANGED <<ledgerVars, productVars, extractVars, transformVars, xhandler, lhandler, observed, mstage, notifications>>

\* setup_redshift_schema returns
CSchema ==
    /\ chandler.pc = "schema"
    /\ chandler' = [chandler EXCEPT !.pc = "send_success", !.schema = "completed"]
    /\ UNCHANGED <<ledgerVars, productVars, extractVars, transformVars, xhandler, lhandler, observed, mstage, notifications>>

\* setup_redshift_schema raises
CSchemaFail ==
    /\ chandler.pc = "schema"
    /\ chandler' = [chandler EXCEPT !.pc = "send_failed", !.schema = "raised"]
    /\ UNCHANGED <<ledgerVars, productVars, extractVars, transformVars, xhandler, lhandler, observed, mstage, notifications>>

\* send_cfn_response: the PUT of the response to event["ResponseURL"] is answered
Sent(h, status) ==
    [h EXCEPT !.responses = Append(@, status), !.attempts = @ + 1]

\* send_cfn_response raises (http.request fails): the response has reached
\* CloudFormation before the error, or has not
NotAnswered(h, status, delivered) ==
    [h EXCEPT !.responses = IF delivered THEN Append(@, status) ELSE @,
              !.attempts = @ + 1]

\* send_cfn_response(..., "SUCCESS", ...) inside the try block, then the return
CSendSuccess ==
    /\ chandler.pc = "send_success"
    /\ chandler' = [Sent(chandler, "SUCCESS") EXCEPT !.pc = "done"]
    /\ UNCHANGED <<ledgerVars, productVars, extractVars, transformVars, xhandler, lhandler, observed, mstage, notifications>>

\* send_cfn_response(..., "SUCCESS", ...) raises inside the try block: the except
\* clause is entered
CSendSuccessFail(delivered) ==
    /\ chandler.pc = "send_success"
    /\ chandler' = [NotAnswered(chandler, "SUCCESS", delivered) EXCEPT !.pc = "send_failed"]
    /\ UNCHANGED <<ledgerVars, productVars, extractVars, transformVars, xhandler, lhandler, observed, mstage, notifications>>

\* send_cfn_response(..., "FAILED", ...) of the except clause
CSendFailed ==
    /\ chandler.pc = "send_failed"
    /\ chandler' = [Sent(chandler, "FAILED") EXCEPT !.pc = "done"]
    /\ UNCHANGED <<ledgerVars, productVars, extractVars, transformVars, xhandler, lhandler, observed, mstage, notifications>>

\* send_cfn_response of the except clause raises: the exception leaves the handler
CSendFailedFail(delivered) ==
    /\ chandler.pc = "send_failed"
    /\ chandler' = [NotAnswered(chandler, "FAILED", delivered) EXCEPT
                        !.pc = "done", !.escaped = TRUE]
    /\ UNCHANGED <<ledgerVars, productVars, extractVars, transformVars, xhandler, lhandler, observed, mstage, notifications>>

\* the invocation is over
CEnd ==
    /\ chandler.pc = "done"
    /\ chandler' = [chandler EXCEPT !.pc = "idle"]
    /\ UNCHANGED <<ledgerVars, productVars, extractVars, transformVars, xhandler, lhandler, observed, mstage, notifications>>

CreateTablesNext ==
    \/ \E request_type \in RequestTypes : CStart(request_type)
    \/ CConfig
    \/ CConfigFail
    \/ CSchema
    \/ CSchemaFail
    \/ CSendSuccess
    \/ \E delivered \in BOOLEAN : CSendSuccessFail(delivered)
    \/ CSendFailed
    \/ \E delivered \in BOOLEAN : CSendFailedFail(delivered)
    \/ CEnd

\* ------------------------------------------------- MessageHandler on one batch
\* a body that is a JSON list of orders: messages.extend(data)
JsonListOf(orders) == [json_ok |-> TRUE, messages |-> orders]
\* a body that is JSON but neither a list nor an object: a warning, nothing added
JsonScalar == [json_ok |-> TRUE, messages |-> <<>>]

MaxPayloads == 3    \* records in one batch given to parse_sqs_messages

Payloads ==
    { NotJson, JsonScalar, JsonOf(OrderLeeds), JsonOf(OrderNewYork),
      JsonListOf(<<OrderLeedsLate, OrderLeeds>>), JsonOf(OrderBadStamp) }

Batches == UNION { [1..n -> Payloads] : n \in 0..MaxPayloads }

MessagesStart == [pc |-> "idle", raw_records |-> <<>>, messages |-> <<>>,
                  grouped |-> [ok |-> TRUE, groups |-> <<>>]]

\* messages = self.message_handler.parse_sqs_messages(records)
MParse(raw_records) ==
    /\ mstage.pc = "idle"
    /\ mstage' = [MessagesStart EXCEPT !.pc = "parsed", !.raw_records = raw_records,
                                       !.messages = ParseSqsMessages(raw_records)]
    /\ UNCHANGED <<ledgerVars, productVars, extractVars, transformVars,
                   xhandler, lhandler, chandler, observed, notifications>>

\* message_groups = self.message_handler.group_messages(messages)
MGroup ==
    /\ mstage.pc = "parsed"
    /\ mstage' = [mstage EXCEPT !.pc = "grouped", !.grouped = GroupMessages(mstage.messages)]
    /\ UNCHANGED <<ledgerVars, productVars, extractVars, transformVars,
                   xhandler, lhandler, chandler, observed, notifications>>

\* the batch is done with; the handler is given the next one
MEnd ==
    /\ mstage.pc = "grouped"
    /\ mstage' = MessagesStart
    /\ UNCHANGED <<ledgerVars, productVars, extractVars, transformVars,
                   xhandler, lhandler, chandler, observed, notifications>>

MessagesNext ==
    \/ \E raw_records \in Batches : MParse(raw_records)
    \/ MGroup
    \/ MEnd

HandlersInit ==
    /\ xhandler = HandlerStart(TRUE)
    /\ lhandler = LoaderStart
    /\ chandler = CreatorStart
    /\ observed = "all"
    /\ mstage = MessagesStart
    /\ notifications = NoNotifications

Init ==
    /\ LedgerInit
    /\ ProductInit
    /\ ExtractInit
    /\ TransformInit
    /\ HandlersInit

\* an execution environment of the extract handler, deployed with either setting
\* of PERFORM_DEDUPLICATION
ExtractHandlerInit ==
    /\ LedgerInit
    /\ ProductInit
    /\ ExtractInit
    /\ TransformInit
    /\ xhandler \in {HandlerStart(dedup) : dedup \in BOOLEAN}
    /\ lhandler = LoaderStart
    /\ chandler = CreatorStart
    /\ observed = "all"
    /\ mstage = MessagesStart
    /\ notifications = NoNotifications

SpecLedger == Init /\ [][LedgerNext]_vars

SpecProducts == Init /\ [][ProductNext]_vars

SpecExtract == Init /\ [][ExtractNext]_vars

SpecTransform == Init /\ [][TransformNext]_vars

SpecTransformSeq == Init /\ [][TransformSeqNext]_vars

SpecTransformRace == Init /\ [][TransformRaceNext]_vars

SpecTransformBuckets == Init /\ [][TransformBucketsNext]_vars

SpecExtractSeq == Init /\ [][ExtractSeqNext]_vars

\* the events and files of the invocations that run side by side
LiveEvents == { <<NotJson>>, <<JsonOf(OrderLeeds)>>, <<JsonOf(OrderBitcoin)>> }

LiveFiles == { <<RowA>>, <<RowShort>>, <<RowB, RowA>> }

\* a step of a transform invocation between its start and its response, with a
\* store that answers
TStep(h) ==
    \/ TReadLocations(h)
    \/ TReadProducts(h)
    \/ TLedgerGet(h)
    \/ TLedgerPut(h)
    \/ TStoreTransactions(h)
    \/ TStoreBaskets(h)
    \/ TUpdateLocations(h)
    \/ TUpdateProducts(h)

\* a step of an extract invocation between its start and its response, with a
\* store and a queue that answer
XStep(e) ==
    \/ XCheck(e)
    \/ XCheckNoSuchKey(e)
    \/ XCreate(e)
    \/ XUpdateSkip(e)
    \/ XUpdateRead(e)
    \/ XUpdateWrite(e)
    \/ XStore(e)
    \/ XSend(e)

\* the invocations of one function, interleaved in every way; the two functions
\* share no object of the store, so each is followed on its own
LiveInit ==
    /\ LedgerInit
    /\ ProductInit
    /\ ExtractInit
    /\ TransformInit
    /\ xhandler = HandlerStart(TRUE)
    /\ lhandler = LoaderStart
    /\ chandler = CreatorStart
    /\ observed \in {"extract", "transform"}
    /\ mstage = MessagesStart
    /\ notifications = NoNotifications

LiveNext ==
    \/ observed = "transform" /\ \E h \in Handlers, event \in LiveEvents : TStart(h, event)
    \/ observed = "transform" /\ \E h \in Handlers : TStep(h)
    \/ observed = "transform" /\ \E h \in Handlers : TEnd(h)
    \/ observed = "extract" /\ \E e \in Extractors, rows \in LiveFiles : XStart(e, rows, TRUE)
    \/ observed = "extract" /\ \E e \in Extractors : XStep(e)
    \/ observed = "extract" /\ \E e \in Extractors : XEnd(e)

\* Lambda gives every invocation its own execution environment and runs it on:
\* while some invocation has a step to take, a step is taken
LiveFairness == WF_vars((\E h \in Handlers : TStep(h)) \/ (\E e \in Extractors : XStep(e)))

SpecLive == LiveInit /\ [][LiveNext]_vars /\ LiveFairness

SpecExtractHandler == ExtractHandlerInit /\ [][ExtractHandlerNext]_vars

SpecFeedback == ExtractHandlerInit /\ [][FeedbackNext]_vars /\ FeedbackFairness

SpecLoadHandler == Init /\ [][LoadHandlerNext]_vars

SpecCreateTables == Init /\ [][CreateTablesNext]_vars

SpecMessages == Init /\ [][MessagesNext]_vars

\* ------------------------------------------------------- claims on the ledger
StoredCounter(blob, t) == IF blob.exists /\ t \in DOMAIN blob.body THEN blob.body[t] ELSE 0

\* the calls of issuedLog that asked for type t, in order
RECURSIVE IssuedFor(_, _)
IssuedFor(log, t) ==
    IF log = <<>> THEN <<>>
    ELSE LET e == Head(log)
         IN  IF t \in DOMAIN e.req
             THEN <<[first |-> e.result[t], n |-> e.req[t]]>> \o IssuedFor(Tail(log), t)
             ELSE IssuedFor(Tail(log), t)

IdsOf(r) == r.first .. (r.first + r.n - 1)

RangesDisjointGapFree(log, t) ==
    LET rs == IssuedFor(log, t)
    IN  /\ \A i, j \in DOMAIN rs : i # j => IdsOf(rs[i]) \cap IdsOf(rs[j]) = {}
        /\ UNION {IdsOf(rs[i]) : i \in DOMAIN rs} = 1 .. SumSeq([i \in DOMAIN rs |-> rs[i].n])

\* C1: under sequential (non-overlapping) calls of get_next_id_batch, with any mix
\* of entity types and counts, the id ranges issued for one entity type are pairwise
\* disjoint and their union is the gap-free range 1..(sum of the counts requested).
C1_RangesDisjointGapFree ==
    ~ledgerOverlap => \A t \in EntityTypes : RangesDisjointGapFree(issuedLog, t)

\* C1 witness: two sequential calls with different mixes of entity types have
\* returned, and both were issued a non-empty range of transaction ids.
C1_Witness ==
    /\ ~ledgerOverlap
    /\ Len(issuedLog) = 2
    /\ issuedLog[1].req = [transaction |-> 2]
    /\ issuedLog[2].req = [transaction |-> 1, basket |-> 2]
    /\ issuedLog[2].result = [transaction |-> 3, basket |-> 1]

CounterNotLowered == \A t \in EntityTypes : StoredCounter(counterFile', t) >= StoredCounter(counterFile, t)

\* C2 (as claimed): no write to the ledger lowers the stored counter of any type, in
\* every execution, including ones where the get and the put of several calls interleave.
C2_NeverDecreases == [][CounterNotLowered]_vars

\* C2 (amended): as long as no call has begun between another call's get and put,
\* no write to the ledger lowers the stored counter of any type.
C2_NeverDecreasesSequential == [][~ledgerOverlap' => CounterNotLowered]_vars

\* C2 witness: a second sequential call has raised an already positive counter.
C2_Witness ==
    /\ ~ledgerOverlap
    /\ Len(issuedLog) = 2
    /\ issuedLog[1].req = [transaction |-> 2, basket |-> 0]
    /\ issuedLog[2].req = [transaction |-> 1]
    /\ StoredCounter(counterFile, "transaction") = 3

\* ---------------------------------------------------- claims on the product catalog
SameNameFlavourSize(a, b) ==
    /\ a.product_name = b.product_name
    /\ a.product_flavour = b.product_flavour
    /\ a.product_size = b.product_size

\* C8: on one catalog, a candidate with the (name, flavour, size) of an earlier
\* resolved candidate resolves to the same id when the two prices differ by less
\* than 0.001, and to a different id when they differ by 0.01 or more.
C8_ProductIdentity ==
    (pearlier # NoCall /\ plast # NoCall /\ SameNameFlavourSize(pearlier.cand, plast.cand)) =>
        /\ Abs(pearlier.cand.product_price - plast.cand.product_price) < PriceTolerance
              => plast.id = pearlier.id
        /\ Abs(pearlier.cand.product_price - plast.cand.product_price) >= UnitsPerCent
              => plast.id # pearlier.id

ProductIdsDense(products) ==
    /\ \A i, j \in DOMAIN products : i # j => products[i].id # products[j].id
    /\ {products[i].id : i \in DOMAIN products} = 1 .. Len(products)

ProductKeysUnique(products) ==
    \A i, j \in DOMAIN products : i # j => ProductKey(products[i]) # ProductKey(products[j])

PersistedProducts == IF prodFile.exists THEN [i \in DOMAIN prodFile.body |-> ProductOfCsvRow(prodFile.body[i])] ELSE <<>>

\* C9: after any sequence of get_product_id calls and flush / reload cycles, the
\* product ids of the catalog (the working copy and the persisted file) are unique
\* and exactly 1..N, and no two catalog products have the same identity key
\* (name, flavour, size, price rounded to two decimals).
C9_CatalogIdsAndKeys ==
    /\ ProductIdsDense(preg.products)
    /\ ProductKeysUnique(preg.products)
    /\ ProductIdsDense(PersistedProducts)
    /\ ProductKeysUnique(PersistedProducts)

\* ---------------------------------------------------- claims on the fingerprint set
\* invocation e completes the lookup of its current record in this step
LookupEnds(e) ==
    /\ xpc[e] \in {"check", "create", "lookup_failed"}
    /\ xidx'[e] = xidx[e] + 1

\* the record is dropped as a duplicate
Dropped(e) == xdup'[e] = xdup[e] + 1 /\ xunique'[e] = xunique[e] /\ xnew'[e] = xnew[e]

\* C3: once a record's fingerprint is in the persisted fingerprint set, every later
\* extract_csv call (deduplication on) that contains the record drops it as a
\* duplicate.  Stated over the calls that overlap no other call: a lookup of a
\* fingerprint that is in the persisted set ends with the record dropped.
C3_RecordedIsDropped ==
    [][\A e \in Extractors :
          ( /\ ~extractOverlap
            /\ LookupEnds(e)
            /\ xdata[e][xidx[e]].record_hash \in Persisted(hashFile) )
          => Dropped(e)]_vars

FingerprintsKept == Persisted(hashFile) \subseteq Persisted(hashFile')

\* C4 (as claimed): in every execution, including concurrent extract invocations, a
\* fingerprint once written to the fingerprint-set blob is in every later version of it.
C4_SetOnlyGrows == [][FingerprintsKept]_vars

\* C4 (amended): as long as no extract_csv call has begun while another was running,
\* a fingerprint once written to the fingerprint-set blob is in every later version.
C4_SetOnlyGrowsSequential == [][~extractOverlap' => FingerprintsKept]_vars

\* C4 witness: a second, later call has found the fingerprint of RowA recorded and
\* has extended the set by the fingerprint of RowB.
C4_Witness ==
    /\ ~extractOverlap
    /\ extractCalls = 2
    /\ hashFile.exists
    /\ hashFile.body = {RecordHash(RowA), RecordHash(RowB)}
    /\ \E e \in Extractors :
          /\ xpc[e] = "store"
          /\ xdup[e] = 1
          /\ xnew[e] = <<RecordHash(RowB)>>

\* C5: when the input of one extract_csv call (deduplication on) holds the same raw
\* record twice and its fingerprint is not yet recorded, exactly one copy survives
\* and the duplicate count is 1.  Stated for the first call on an empty store (so
\* that nothing is recorded yet), every store request of which was answered, at
\* the point where the loop and update_hash_registry are done.
C5_SameRecordTwice ==
    \A e \in Extractors :
        ( /\ extractCalls = 1 /\ ~extractFaults
          /\ xpc[e] = "store" /\ xdedup[e]
          /\ Len(xdata[e]) = 2
          /\ xdata[e][1] = xdata[e][2] )
        => (Len(xunique[e]) = 1 /\ xdup[e] = 1)

\* C6: a failure of the registry lookup other than NoSuchKey fails the whole batch:
\* extract_csv raises, and the record is not treated as new and admitted.
C6_LookupFailureRaises ==
    [][\A e \in Extractors :
          xpc[e] = "lookup_failed" =>
              /\ xpc'[e] \in {"lookup_failed", "raised"}
              /\ xunique'[e] = xunique[e]]_vars

\* ------------------------------------------------ claims on the transform handler
PersistedLocations == IF locFile.exists THEN locFile.body ELSE <<>>

\* C7: after any sequence of sequential, successfully completed transform
\* invocations, the persisted location catalog contains exactly the distinct towns
\* seen in the processed records, no two towns share an id, and the ids are exactly
\* 1..N for the N towns.
C7_LocationBijection ==
    ( /\ \A h \in Handlers : ~Running(h)
      /\ ~transformOverlap
      /\ ~transformFailed )
    => LET rows == PersistedLocations
           N == Cardinality(seenTowns)
       IN  /\ {rows[i].town : i \in DOMAIN rows} = seenTowns
           /\ Len(rows) = N
           /\ \A i, j \in DOMAIN rows : rows[i].id = rows[j].id => i = j
           /\ {rows[i].id : i \in DOMAIN rows} = 1..N
           /\ {ReadAllLocations(locFile)[i].town : i \in DOMAIN ReadAllLocations(locFile)}
                  = seenTowns

\* C7 witness: two invocations have completed one after the other, the first
\* having put New York in the catalog and the second having added Leeds to what
\* it read back.
C7_Witness ==
    /\ \A h \in Handlers : tstate[h].pc = "idle"
    /\ ~transformOverlap /\ ~transformFailed
    /\ transformCalls = 2
    /\ seenTowns = {"Leeds", "New York"}
    /\ locFile.exists
    /\ locFile.body = <<[id |-> 1, town |-> "New York"], [id |-> 2, town |-> "Leeds"]>>

\* C10: when a bucket contains an order whose payment method is not cash or card,
\* the order is rejected with a validation error and the persisted ledger counters
\* for transaction and basket are afterwards what they were before that bucket was
\* processed.  Stated for the invocations that ran alone: once the handler has
\* answered after get_payment_method raised, the persisted counters are those that
\* were persisted when it entered the bucket.
C10_RejectionLeavesLedger ==
    \A h \in Handlers :
        ( /\ ~transformOverlap
          /\ tstate[h].pc = "done"
          /\ tstate[h].error = "payment" )
        => /\ tstate[h].statusCode = 500
           /\ \A t \in EntityTypes : PersistedCounters[t] = tbefore[h][t]

StoredTransactions == UNION {Range(txFile[k].body) : k \in BucketKeys}
StoredBaskets == UNION {Range(basketFile[k].body) : k \in BucketKeys}

\* C11: whenever no transform invocation is in progress, after any sequence of
\* invocations (including ones that aborted with an error), every stored
\* Transaction row's location_id is the id of a location in the persisted location
\* catalog, and every stored Basket row's product_id is the id of a product in the
\* persisted product catalog.
C11_ForeignKeysResolve ==
    (\A h \in Handlers : ~Running(h))
    => /\ \A row \in StoredTransactions :
              \E i \in DOMAIN PersistedLocations : PersistedLocations[i].id = row.location_id
       /\ \A row \in StoredBaskets :
              \E i \in DOMAIN PersistedProducts : PersistedProducts[i].id = row.product_id

\* C12: a Transaction or Basket row, once written to the store by a transform
\* invocation, stays in the store unchanged after every later invocation, including
\* one that processes other records of the same (date, location) bucket.
C12_RowsImmutable ==
    [][/\ StoredTransactions \subseteq StoredTransactions'
       /\ StoredBaskets \subseteq StoredBaskets']_vars

\* ---- validation failures

ValidationErrors == {"timestamp", "payment", "product"}

ValidOrder(order) ==
    /\ TransformTimestamp(order.transaction_timestamp).ok
    /\ GetPaymentMethod(order.payment_method).ok
    /\ TransformProducts(order.products).ok

AllOrdersValid(task) ==
    \A g \in DOMAIN task.groups :
        \A i \in DOMAIN task.groups[g].messages : ValidOrder(task.groups[g].messages[i])

\* C15: the step of an invocation that meets a record failing validation (bad
\* timestamp, unknown payment method, incomplete product) ends the invocation with
\* status 500: it writes nothing for the bucket of that record (the step may still
\* complete the store of the bucket before), neither catalog has been flushed by
\* then, nothing but the return follows it, and an invocation that reaches a
\* catalog flush holds no invalid record.
C15_ValidationFailureAborts ==
    [][\A h \in Handlers :
          /\ (tstate[h].error = "" /\ tstate'[h].error \in ValidationErrors)
                => /\ tstate'[h].pc = "done"
                   /\ tstate'[h].statusCode = 500
                   /\ thist[h].update_locations = 0
                   /\ thist[h].update_products = 0
                   /\ UNCHANGED <<locFile, prodFile, txFile>>
                   /\ \A k \in BucketKeys :
                         basketFile'[k] # basketFile[k]
                            => /\ tstate[h].pc = "store_baskets"
                               /\ k = tstate[h].groups[tstate[h].gi].key
          /\ (tstate[h].error \in ValidationErrors /\ tstate'[h] # tstate[h])
                => /\ tstate'[h] = IdleTask
                   /\ UNCHANGED <<locFile, prodFile, txFile, basketFile, counterFile>>
          /\ (tstate'[h].pc \in {"update_locations", "update_products"})
                => AllOrdersValid(tstate'[h])]_vars

\* an incomplete product in the second bucket, after the first bucket added a town
\* and was stored: the catalog of locations is still absent
C15_Witness ==
    /\ tstate["t1"].error = "product"
    /\ tstate["t1"].statusCode = 500
    /\ txFile[<<"2025-04-28", "New_York">>].exists
    /\ ~locFile.exists

\* C16: an invocation that answers 500 has stored no transactions.csv and no
\* baskets.csv: when it meets the error it has completed no bucket and does not
\* stand between the two stores of a bucket.
C16_ErrorMeansNoOutput ==
    [][\A h \in Handlers :
          (tstate[h].statusCode # 500 /\ tstate'[h].statusCode = 500)
            => /\ thist[h].buckets = 0
               /\ tstate[h].pc # "store_baskets"]_vars

\* C17: a store request that fails never leaves the catalogs half flushed: the
\* invocation it fails in has not written the locations back while its products,
\* dirty too, still wait to be written.
C17_NoPartialFlush ==
    [][\A h \in Handlers :
          (tstate[h].error = "" /\ tstate'[h].error = "store")
            => ~(/\ thist[h].update_locations > 0
                 /\ tstate[h].pc = "update_products"
                 /\ tstate[h].any_products_updated)]_vars

\* ---- the catalogs across the buckets of one invocation

\* C18: a town that the catalog does not hold and that two buckets of one invocation
\* contain gets in the later bucket the id the earlier bucket gave it (the rows
\* about to be stored carry the location_id of the rows stored for the earlier
\* bucket), and such an invocation calls update_locations at most once, and once
\* when it has completed.
C18_SecondBucketReusesId ==
    \A h \in Handlers :
        LET task == tstate[h]
        IN  /\ (task.pc = "store_transactions" /\ ~transformOverlap)
                  => \A g \in 1..(task.gi - 1) :
                       \A i \in DOMAIN task.groups[g].messages :
                         \A j \in DOMAIN task.groups[task.gi].messages :
                            (/\ task.groups[g].messages[i].location_name
                                  = task.groups[task.gi].messages[j].location_name
                             /\ ~HasTown(ReadAllLocations(locFile),
                                         task.groups[g].messages[i].location_name))
                              => txFile[task.groups[g].key].body[i].location_id
                                    = task.transactions[j].location_id
            /\ thist[h].reused_location
                  => /\ thist[h].update_locations <= 1
                     /\ (task.pc = "done" /\ task.statusCode = 200)
                           => thist[h].update_locations = 1

\* Leeds on two days in one event against an empty store: both buckets stored with
\* location 1, the catalog written once
C18_Witness ==
    /\ tstate["t1"].pc = "done"
    /\ tstate["t1"].statusCode = 200
    /\ thist["t1"].reused_location
    /\ thist["t1"].update_locations = 1
    /\ thist["t1"].buckets = 2
    /\ transformCalls = 1
    /\ txFile[<<"2025-04-28", "Leeds">>].exists
    /\ txFile[<<"2025-04-29", "Leeds">>].exists
    /\ txFile[<<"2025-04-28", "Leeds">>].body[1].location_id = 1
    /\ txFile[<<"2025-04-29", "Leeds">>].body[1].location_id = 1
    /\ locFile.body = <<[id |-> 1, town |-> "Leeds"]>>

\* C19: an invocation that completes has called update_locations once if a bucket
\* added a location and never otherwise, and update_products once if a bucket added
\* a product and never otherwise; each of the two calls is made with every bucket
\* stored and is the first of its kind.
C19_FlushOnceAfterLastBucket ==
    [][\A h \in Handlers :
          /\ (tstate'[h].pc = "done" /\ tstate'[h].statusCode = 200)
                => /\ thist'[h].update_locations = IF thist'[h].added_location THEN 1 ELSE 0
                   /\ thist'[h].update_products = IF thist'[h].added_product THEN 1 ELSE 0
          /\ (thist'[h].update_locations > thist[h].update_locations)
                => /\ thist[h].update_locations = 0
                   /\ thist[h].buckets = Len(tstate[h].groups)
          /\ (thist'[h].update_products > thist[h].update_products)
                => /\ thist[h].update_products = 0
                   /\ thist[h].buckets = Len(tstate[h].groups)]_vars

\* two buckets of a known town, the later one with a new product: the products
\* are written once, the locations are not
C19_Witness ==
    /\ tstate["t1"].pc = "done"
    /\ tstate["t1"].statusCode = 200
    /\ thist["t1"].buckets = 2
    /\ thist["t1"].added_product
    /\ ~thist["t1"].added_location
    /\ thist["t1"].update_products = 1
    /\ thist["t1"].update_locations = 0

IsPrefix(a, b) == Len(a) <= Len(b) /\ \A i \in DOMAIN a : a[i] = b[i]

C13_LookupSeesPersistedOnly ==
    [][\A e \in Extractors :
          /\ (/\ xpc[e] = "check" /\ xidx'[e] = xidx[e] + 1
              /\ ~(xdata[e][xidx[e]].record_hash \in Persisted(hashFile)))
                => xunique'[e] = Append(xunique[e], xdata[e][xidx[e]])
          /\ (xpc[e] = "returned" /\ xpc'[e] = "sent")
                => /\ MessageBody(xunique[e]) \in DOMAIN sqsQueue'
                   /\ sqsQueue'[MessageBody(xunique[e])]
                        = (IF MessageBody(xunique[e]) \in DOMAIN sqsQueue
                           THEN sqsQueue[MessageBody(xunique[e])] ELSE 0) + 1]_vars

\* both invocations deduplicate, no request has failed, each has sent the one row
\* of its file, and the queue holds that message twice
C13_Witness ==
    /\ \A e \in Extractors :
          /\ xpc[e] = "sent"
          /\ xdedup[e]
          /\ MessageBody(xunique[e]) = <<RowA>>
    /\ ~extractFaults
    /\ <<RowA>> \in DOMAIN sqsQueue
    /\ sqsQueue[<<RowA>>] = 2

\* C14: every write of the ledger and of a catalog stores what the writer computed
\* from its own earlier load, whatever the store holds by then: the ledger put
\* stores the counters the invocation read plus the counts of its bucket, the
\* catalog puts store the invocation's own structures.  A write made by another
\* invocation between that load and this store is so discarded: two overlapping
\* invocations can be issued the same ids and can give the same location id to
\* two towns (C14_Witness).
C14_WritesOverwriteFromOwnLoad ==
    [][\A h \in Handlers :
          LET task == tstate[h]
          IN  /\ (task.pc = "ledger_put" /\ tstate'[h].pc # "ledger_put")
                    => \A t \in EntityTypes :
                          counterFile'.body[t]
                            = (IF t \in DOMAIN task.counters THEN task.counters[t] ELSE 0)
                              + BucketCounts(task.groups[task.gi].messages).counts[t]
              /\ (task.pc = "update_locations" /\ tstate'[h].pc # "update_locations")
                    => Range(locFile'.body)
                         = {CsvRowOfLocation(task.location_registry[i]) :
                                i \in DOMAIN task.location_registry}
              /\ (task.pc = "update_products" /\ tstate'[h].pc # "update_products")
                    => Len(prodFile'.body) = Len(task.product_registry.products)]_vars

\* two overlapping invocations, one on a Leeds order and one on a New York order,
\* against an empty store, have both completed: both transactions carry id 1 and
\* location 1, the ledger stands at 1 after two transactions, and the catalog of
\* locations holds New York alone
C14_Witness ==
    /\ \A h \in Handlers : tstate[h].pc = "done" /\ tstate[h].statusCode = 200
    /\ transformCalls = 2
    /\ txFile[<<"2025-04-28", "Leeds">>].exists
    /\ txFile[<<"2025-04-28", "New_York">>].exists
    /\ txFile[<<"2025-04-28", "Leeds">>].body[1].id = 1
    /\ txFile[<<"2025-04-28", "New_York">>].body[1].id = 1
    /\ txFile[<<"2025-04-28", "Leeds">>].body[1].location_id = 1
    /\ txFile[<<"2025-04-28", "New_York">>].body[1].location_id = 1
    /\ counterFile.body["transaction"] = 1
    /\ locFile.body = <<[id |-> 1, town |-> "New York"]>>

\* ---- get_next_id_batch

\* the counter of type t in the ledger a call has read, 0 where the ledger or the
\* type is missing
ReadCounter(c, t) == IF t \in DOMAIN lcounters[c] THEN lcounters[c][t] ELSE 0

\* C21: the step in which a get_next_id_batch call returns is its one put: it
\* returns for every requested type the counter it read plus 1 (0 read for a
\* missing ledger or type), and the ledger it puts holds for every requested type
\* the counter read plus the requested count and for every other type what was
\* read; the get before it writes nothing.
C21_ReserveReadsAddsPutsOnce ==
    [][\A c \in Callers :
          /\ (lpc[c] = "loaded" /\ lpc'[c] = "idle" /\ Len(issuedLog') = Len(issuedLog) + 1)
                => LET req == lreq[c]
                       out == issuedLog'[Len(issuedLog')]
                   IN  /\ out.req = req
                       /\ DOMAIN out.result = DOMAIN req
                       /\ \A t \in DOMAIN req : out.result[t] = ReadCounter(c, t) + 1
                       /\ counterFile'.exists
                       /\ DOMAIN counterFile'.body = (DOMAIN lcounters[c]) \cup (DOMAIN req)
                       /\ \A t \in DOMAIN counterFile'.body :
                             counterFile'.body[t]
                               = ReadCounter(c, t) + (IF t \in DOMAIN req THEN req[t] ELSE 0)
          /\ (lpc[c] = "idle" /\ lpc'[c] = "loaded")
                => /\ counterFile' = counterFile
                   /\ lcounters'[c] = (IF counterFile.exists THEN counterFile.body ELSE EmptyMap)]_vars

\* a call for two transactions against no ledger, then a call for one basket: the
\* second call finds no basket counter, is given basket 1 and leaves transaction 2
C21_Witness ==
    /\ Len(issuedLog) = 2
    /\ ~ledgerOverlap
    /\ DOMAIN issuedLog[1].req = {"transaction"}
    /\ issuedLog[1].req["transaction"] = 2
    /\ issuedLog[1].result["transaction"] = 1
    /\ DOMAIN issuedLog[2].req = {"basket"}
    /\ issuedLog[2].req["basket"] = 1
    /\ issuedLog[2].result["basket"] = 1
    /\ counterFile.body["transaction"] = 2
    /\ counterFile.body["basket"] = 1

\* ---- fingerprints

BusinessFields(row) == <<row[1], row[2], row[3], row[4], row[5]>>

WellFormedRows == {r \in UNION {Range(f) : f \in SeqFiles \cup RawFiles} : Len(r) = HeaderCount}

\* C22: the fingerprint a record carries is a function of its five business fields:
\* the records an invocation holds that agree on them carry the same fingerprint,
\* and each carries the fingerprint any row with the same five fields gets, in this
\* and in every other call, whatever its payment_method and card_number.
C22_FingerprintOfBusinessFields ==
    \A e \in Extractors :
        \A i \in DOMAIN xdata[e] :
            /\ \A f \in Extractors :
                  \A j \in DOMAIN xdata[f] :
                      BusinessFields(xdata[e][i].row) = BusinessFields(xdata[f][j].row)
                        => xdata[e][i].record_hash = xdata[f][j].record_hash
            /\ \A r \in WellFormedRows :
                  BusinessFields(xdata[e][i].row) = BusinessFields(r)
                    => xdata[e][i].record_hash = RecordHash(r)

\* a later call on the order of RowA paid in cash, after a call recorded RowA paid
\* by card: the record carries the recorded fingerprint and is counted a duplicate
C22_Witness ==
    /\ extractCalls = 2
    /\ xpc["e1"] = "update"
    /\ xdedup["e1"]
    /\ Len(xdata["e1"]) = 1
    /\ xdata["e1"][1].row = RowACash
    /\ xdata["e1"][1].record_hash \in Persisted(hashFile)
    /\ xdup["e1"] = 1
    /\ xunique["e1"] = <<>>

\* C23: a lookup that finds no registry blob does not answer from the get: it goes
\* on to put the registry, and the step in which it returns leaves the registry
\* existing and empty and the record admitted as new (appended to unique_data and
\* to new_hashes, the duplicate count as it was).
C23_MissingRegistryCreatedEmpty ==
    [][\A e \in Extractors :
          /\ (xpc[e] = "check" /\ ~hashFile.exists /\ xpc'[e] # "check")
                => /\ xpc'[e] = "create"
                   /\ xidx'[e] = xidx[e]
                   /\ hashFile' = hashFile
          /\ (xpc[e] = "create" /\ xidx'[e] = xidx[e] + 1)
                => /\ hashFile'.exists
                   /\ hashFile'.body = {}
                   /\ xunique'[e] = Append(xunique[e], xdata[e][xidx[e]])
                   /\ xnew'[e] = Append(xnew[e], xdata[e][xidx[e]].record_hash)
                   /\ xdup'[e] = xdup[e]]_vars

\* the first call ever, on the file [RowA]: the registry now exists, empty, and
\* RowA is admitted
C23_Witness ==
    /\ extractCalls = 1
    /\ xpc["e1"] = "update"
    /\ hashFile.exists
    /\ hashFile.body = {}
    /\ xdup["e1"] = 0
    /\ Len(xunique["e1"]) = 1
    /\ xunique["e1"][1].row = RowA

\* ---- transform_data on one order

\* C24: a bucket holding the one order (28/04/2025 14:30, Springfield, "Large Coffee
\* - Vanilla - 3.50, Regular Tea - 2.00", 5.50, card), transformed with both
\* catalogs empty, gives one transaction (2025-04-28, 14:30:00, Card, 5.50) at the
\* new location of Springfield, two baskets of that transaction with two distinct
\* product ids, and exactly the two new products Large/Vanilla/Coffee at 3.50 and
\* Regular/Standard/Tea at 2.00 under those ids.
C24_SpringfieldOrder ==
    [][\A h \in Handlers :
          (/\ tstate[h].pc = "ledger_put"
           /\ tstate'[h].pc = "store_transactions"
           /\ tstate[h].groups[tstate[h].gi].messages = <<OrderSpringfield>>
           /\ tstate[h].location_registry = <<>>
           /\ tstate[h].product_registry.products = <<>>)
            => LET next == tstate'[h]
                   txs == next.transactions
                   bs == next.baskets
                   prods == next.product_registry.products
                   locs == next.location_registry
               IN  /\ Len(txs) = 1
                   /\ txs[1].date = "2025-04-28"
                   /\ txs[1].time = "14:30:00"
                   /\ txs[1].payment_type = "Card"
                   /\ txs[1].total_spend = 55000
                   /\ Len(locs) = 1
                   /\ locs[1].town = "Springfield"
                   /\ txs[1].location_id = locs[1].id
                   /\ Len(bs) = 2
                   /\ bs[1].transaction_id = txs[1].id
                   /\ bs[2].transaction_id = txs[1].id
                   /\ bs[1].id # bs[2].id
                   /\ bs[1].product_id # bs[2].product_id
                   /\ Len(prods) = 2
                   /\ \E i, j \in 1..2 :
                         /\ prods[i] = [id |-> bs[1].product_id, name |-> "Coffee",
                                        flavour |-> "Vanilla", size |-> "Large",
                                        price |-> 35000]
                         /\ prods[j] = [id |-> bs[2].product_id, name |-> "Tea",
                                        flavour |-> "Standard", size |-> "Regular",
                                        price |-> 20000]]_vars

\* the first invocation ever, on that order, has completed: the four files hold
\* the rows
C24_Witness ==
    /\ transformCalls = 1
    /\ tstate["t1"].pc = "done"
    /\ tstate["t1"].statusCode = 200
    /\ txFile[<<"2025-04-28", "Springfield">>].body
          = <<[id |-> 1, date |-> "2025-04-28", time |-> "14:30:00", location_id |-> 1,
               payment_type |-> "Card", total_spend |-> 55000]>>
    /\ basketFile[<<"2025-04-28", "Springfield">>].body
          = <<[id |-> 1, transaction_id |-> 1, product_id |-> 1],
              [id |-> 2, transaction_id |-> 1, product_id |-> 2]>>
    /\ locFile.body = <<[id |-> 1, town |-> "Springfield"]>>
    /\ Len(prodFile.body) = 2

\* ------------------------------------------------------ claims on the other handlers
\* a key that lies in the processed directory
InProcessedDirectory(key) == "processed" \in Range(key.path)

FilteredOut(record) == IsObjectCreated(record) /\ InProcessedDirectory(record.key)

\* C26: the extract handler never hands process_event an ObjectCreated record whose
\* key lies in the processed directory, and an event all of whose records are such
\* records is answered 200 "No files to process" without a call of process_event
C26_ProcessedNeverPassed ==
    xhandler.pc # "idle" =>
        /\ \A i \in DOMAIN xhandler.passed : ~FilteredOut(xhandler.passed[i])
        /\ \A i \in DOMAIN xhandler.records : ~FilteredOut(xhandler.records[i])
        /\ ( /\ xhandler.event.has_records
             /\ \A i \in DOMAIN xhandler.event.records : FilteredOut(xhandler.event.records[i]) )
           => /\ xhandler.pc = "done"
              /\ ~xhandler.called
              /\ xhandler.response = Response(200, "No files to process", 0, 0)

\* an event of two records under processed/ has been answered, after an earlier
\* event whose file was extracted
C26_Witness ==
    /\ xhandler.pc = "done"
    /\ xhandler.calls = 2
    /\ xhandler.event = S3Event(<<RecProcessed, RecNested>>)
    /\ ~xhandler.called
    /\ xhandler.response = Response(200, "No files to process", 0, 0)
    /\ QueueRows(sqsQueue) = 2

\* the number of messages the queue holds
RECURSIVE QueueMessages(_)
QueueMessages(queue) ==
    IF DOMAIN queue = {} THEN 0
    ELSE LET body == CHOOSE b \in DOMAIN queue : TRUE
         IN  queue[body] + QueueMessages([b \in DOMAIN queue \ {body} |-> queue[b]])

\* a record process_event may extract: from the raw bucket, a .csv key, not under
\* processed/ at the top
Eligible(record) ==
    /\ record.bucket = RawBucket
    /\ record.key.ext = "csv"
    /\ ~(record.key.path # <<>> /\ record.key.path[1] = "processed")

\* C27: process_event extracts and queues only files of the raw bucket whose key
\* ends in .csv and does not start with processed/, queues nothing for a file
\* without surviving rows, starts both counters at 0 for every event, and returns
\* the number of rows it queued and the sum of the duplicates of its own files
C27_ProcessEventCounts ==
    [][ /\ (xhandler.pc = "idle" /\ xhandler'.called)
            => xhandler'.processed_count = 0 /\ xhandler'.duplicate_count = 0
        /\ (xhandler.pc = "process_event" /\ xhandler' # xhandler)
            => LET record == Head(xhandler.records)
                   rows == FileOf(record.key)
                   wellformed == {i \in DOMAIN rows : Len(rows[i]) = HeaderCount}
                   duplicates == {i \in wellformed :
                                    /\ xhandler.perform_deduplication
                                    /\ RecordHash(rows[i]) \in Persisted(hashFile)}
                   surviving == Cardinality(wellformed) - Cardinality(duplicates)
                   sent == QueueRows(sqsQueue') - QueueRows(sqsQueue)
                   answered == xhandler'.response.statusCode # 500
               IN  /\ ~Eligible(record)
                        => /\ sqsQueue' = sqsQueue
                           /\ hashFile' = hashFile
                           /\ processedFile' = processedFile
                           /\ xhandler'.processed_count = xhandler.processed_count
                           /\ xhandler'.duplicate_count = xhandler.duplicate_count
                           /\ answered
                   /\ (Eligible(record) /\ answered)
                        => /\ sent = surviving
                           /\ QueueMessages(sqsQueue') - QueueMessages(sqsQueue)
                                = IF surviving = 0 THEN 0 ELSE 1
                           /\ surviving = 0 => sqsQueue' = sqsQueue
                           /\ xhandler'.processed_count = xhandler.processed_count + sent
                           /\ xhandler'.duplicate_count
                                = xhandler.duplicate_count + Cardinality(duplicates)
                   /\ ~answered => sqsQueue' = sqsQueue
        /\ (xhandler'.pc = "done" /\ xhandler'.called /\ xhandler'.response.statusCode = 200)
            => /\ xhandler'.response.processed
                    = QueueRows(sqsQueue') - xhandler'.queued_before
               /\ xhandler'.response.processed = xhandler'.processed_count
               /\ xhandler'.response.duplicates = xhandler'.duplicate_count
      ]_vars

\* the second event of an execution environment, [orders.csv, late.csv], after
\* late.csv alone: one row queued and two duplicates, none counted from before
C27_Witness ==
    /\ xhandler.pc = "done"
    /\ xhandler.calls = 2
    /\ xhandler.perform_deduplication
    /\ xhandler.event = S3Event(<<RecOrders, RecLate>>)
    /\ xhandler.response = Response(200, "CSV extraction complete", 1, 2)
    /\ QueueRows(sqsQueue) = 2
    /\ QueueMessages(sqsQueue) = 2

\* C30: a row whose field count differs from the header count is skipped and is
\* not fatal: the other rows of the file are fingerprinted and queued as if the
\* row were not there, and no fingerprint of the skipped row is recorded
C30_MalformedRowSkipped ==
    [][ ( /\ xhandler.pc = "process_event"
          /\ xhandler' # xhandler
          /\ Eligible(Head(xhandler.records))
          /\ xhandler'.response.statusCode # 500 )
        => LET rows == FileOf(Head(xhandler.records).key)
               dedup == xhandler.perform_deduplication
               Survives(row) ==
                    /\ Len(row) = HeaderCount
                    /\ ~(dedup /\ RecordHash(row) \in Persisted(hashFile))
               survivors == SelectSeq(rows, Survives)
           IN  /\ \A i \in DOMAIN rows :
                    IF Len(rows[i]) = HeaderCount
                    THEN dedup => RecordHash(rows[i]) \in Persisted(hashFile')
                    ELSE RecordHash(rows[i]) \notin Persisted(hashFile')
               /\ survivors # <<>>
                    => /\ survivors \in DOMAIN sqsQueue'
                       /\ sqsQueue'[survivors]
                            = 1 + (IF survivors \in DOMAIN sqsQueue THEN sqsQueue[survivors]
                                   ELSE 0)
               /\ xhandler'.processed_count = xhandler.processed_count + Len(survivors)
      ]_vars

\* late.csv, whose first row lacks a field, has been processed: the second row is
\* queued and fingerprinted, the first is not
C30_Witness ==
    /\ xhandler.pc = "done"
    /\ xhandler.perform_deduplication
    /\ xhandler.event = S3Event(<<RecLate>>)
    /\ xhandler.response = Response(200, "CSV extraction complete", 1, 0)
    /\ hashFile = [exists |-> TRUE, body |-> {RecordHash(RowA)}]
    /\ sqsQueue = DictPut(EmptyMap, <<RowA>>, 1)

\* C28: a load that fails is confined to its file: the loop goes on with the next
\* record, the handler answers 200, and the count it reports is the number of
\* files copied into Redshift
C28_LoadFailureIsolated ==
    [][ /\ (lhandler.pc = "loop" /\ lhandler'.failures = lhandler.failures + 1)
            => /\ lhandler'.response.statusCode # 500
               /\ lhandler'.files_processed = lhandler.files_processed
               /\ lhandler'.copies = lhandler.copies
               /\ lhandler'.visited = lhandler.visited + 1
               /\ IF Len(lhandler.records) > 1
                  THEN /\ lhandler'.pc = "loop"
                       /\ lhandler'.records = Tail(lhandler.records)
                  ELSE /\ lhandler'.pc = "done"
                       /\ lhandler'.response = LoadResponse(200, lhandler.files_processed)
        /\ (lhandler.pc = "loop" /\ lhandler'.pc = "done")
            => /\ lhandler'.response.statusCode = 200
               /\ lhandler'.response.count = lhandler'.copies
               /\ lhandler'.visited = lhandler'.event_size
      ]_vars

\* the event [transactions file, baskets file]: the load of the first failed, the
\* second was copied, and the handler answered 200 with a count of 1
C28_Witness ==
    /\ lhandler.pc = "done"
    /\ lhandler.event_size = 2
    /\ lhandler.failures = 1
    /\ lhandler.tables["transactions"] = <<>>
    /\ lhandler.tables["baskets"] = <<LKeyBaskets>>
    /\ lhandler.response = LoadResponse(200, 1)

\* C29: every invocation of the create-tables handler sends exactly one response
\* to CloudFormation: SUCCESS for a Delete request, which sets up no schema, and
\* for a schema setup that completed, FAILED when the fetch of the configuration
\* or the schema setup raised
C29_ExactlyOneResponse ==
    /\ Len(chandler.responses) <= 1
    /\ chandler.pc = "done"
        => /\ Len(chandler.responses) = 1
           /\ chandler.request_type = "Delete"
                => /\ chandler.responses = <<"SUCCESS">>
                   /\ chandler.config = "none"
                   /\ chandler.schema = "none"
           /\ chandler.schema = "completed" => chandler.responses = <<"SUCCESS">>
           /\ (chandler.config = "raised" \/ chandler.schema = "raised")
                => chandler.responses = <<"FAILED">>

\* ------------------------------------------------------ claims on the messages
\* the orders a payload contributes: those of its body when the body is JSON
Contributed(payload) == IF payload.json_ok THEN payload.messages ELSE <<>>

\* the number of messages the payloads before the i-th contribute
OffsetOf(raw_records, i) ==
    SumSeq([k \in 1..(i - 1) |-> Len(Contributed(raw_records[k]))])

\* C31: a payload whose body is not JSON is skipped and the batch is parsed all
\* the same: the parsed messages are the orders of every other payload, one
\* payload after the other in payload order, each payload's orders in their order
C31_MalformedPayloadSkipped ==
    mstage.pc \in {"parsed", "grouped"} =>
        LET raw == mstage.raw_records
        IN  /\ Len(mstage.messages) = OffsetOf(raw, Len(raw) + 1)
            /\ \A i \in DOMAIN raw : \A j \in DOMAIN Contributed(raw[i]) :
                    mstage.messages[OffsetOf(raw, i) + j] = raw[i].messages[j]

C31_Witness ==
    /\ mstage.pc = "parsed"
    /\ Len(mstage.raw_records) = 3
    /\ mstage.raw_records[1] = JsonOf(OrderNewYork)
    /\ mstage.raw_records[2] = NotJson
    /\ mstage.raw_records[3] = JsonListOf(<<OrderLeedsLate, OrderLeeds>>)
    /\ mstage.messages = <<OrderNewYork, OrderLeedsLate, OrderLeeds>>

\* the bucket key of a message: its date and its location with '_' for spaces
BucketKey(msg) == <<TransformTimestamp(msg.transaction_timestamp).date, FolderOf(msg.location_name)>>

\* the position of the first message with the key
FirstWith(messages, key) ==
    CHOOSE i \in DOMAIN messages :
        /\ BucketKey(messages[i]) = key
        /\ \A k \in 1..(i - 1) : BucketKey(messages[k]) # key

\* C32: group_messages partitions the messages: no two buckets share a key, every
\* message is in the bucket of its key, a bucket holds exactly the messages of its
\* key in input order, and the buckets come in the order their keys first occur
C32_GroupsPartition ==
    (mstage.pc = "grouped" /\ mstage.grouped.ok) =>
        LET messages == mstage.messages
            groups == mstage.grouped.groups
            WithKey(msg) == {i \in DOMAIN groups : groups[i].key = BucketKey(msg)}
        IN  /\ \A a, b \in DOMAIN groups : groups[a].key = groups[b].key => a = b
            /\ \A m \in DOMAIN messages : Cardinality(WithKey(messages[m])) = 1
            /\ SumSeq([i \in DOMAIN groups |-> Len(groups[i].messages)]) = Len(messages)
            /\ \A i \in DOMAIN groups :
                    /\ groups[i].messages # <<>>
                    /\ groups[i].messages =
                            SelectSeq(messages, LAMBDA msg : BucketKey(msg) = groups[i].key)
            /\ \A a, b \in DOMAIN groups :
                    a < b => FirstWith(messages, groups[a].key) < FirstWith(messages, groups[b].key)

C32_Witness ==
    /\ mstage.pc = "grouped"
    /\ mstage.messages = <<OrderNewYork, OrderLeedsLate, OrderLeeds, OrderLeedsLate, OrderLeeds>>
    /\ mstage.grouped =
            [ok |-> TRUE,
             groups |-> << [key |-> <<"2025-04-28", "New_York">>, messages |-> <<OrderNewYork>>],
                           [key |-> <<"2025-04-29", "Leeds">>,
                            messages |-> <<OrderLeedsLate, OrderLeedsLate>>],
                           [key |-> <<"2025-04-28", "Leeds">>,
                            messages |-> <<OrderLeeds, OrderLeeds>>] >>]

\* ------------------------------------------------------- claims on the id ranges
\* the counter of a type in the ledger an invocation has read
CounterRead(task, t) == IF t \in DOMAIN task.counters THEN task.counters[t] ELSE 0

\* the step of h in which get_next_id_batch returns and transform_data has
\* reconciled the bucket without error
Reconciled(h) == tstate[h].pc = "ledger_put" /\ tstate'[h].pc = "store_transactions"

\* C33: when a bucket is reconciled without error, get_next_id_batch has reserved
\* for each type the ids from the counter read plus 1 up to the counter put; the
\* Transaction rows emitted are as many as the transaction ids reserved, the k-th
\* row of the k-th record with the k-th id; the Basket rows emitted are as many as
\* the basket ids reserved, with the ids in row order, record after record and
\* product line after product line, each with the Transaction id of its record
C33_IdsAreTheReservedRange ==
    [][\A h \in Handlers :
          Reconciled(h) =>
            LET task == tstate[h]
                records == task.groups[task.gi].messages
                first(t) == CounterRead(task, t) + 1
                reserved(t) == counterFile'.body[t] - CounterRead(task, t)
                transactions == tstate'[h].transactions
                baskets == tstate'[h].baskets
                lines(k) == Len(records[k].products)
                before(k) == SumSeq([j \in 1..(k - 1) |-> lines(j)])
            IN  /\ Len(transactions) = Len(records)
                /\ Len(transactions) = reserved("transaction")
                /\ \A k \in DOMAIN transactions :
                        transactions[k].id = first("transaction") + k - 1
                /\ Len(baskets) = reserved("basket")
                /\ Len(baskets) = before(Len(records) + 1)
                /\ \A p \in DOMAIN baskets : baskets[p].id = first("basket") + p - 1
                /\ \A k \in DOMAIN records : \A j \in 1..lines(k) :
                        baskets[before(k) + j].transaction_id = transactions[k].id]_vars

\* a second invocation has reconciled the bucket of the orders (Leeds, two product
\* lines) and (Leeds, one product line) after a first one had used 2 transaction
\* and 3 basket ids: transactions 3 and 4, baskets 4 and 5 of transaction 3 and
\* basket 6 of transaction 4
C33_Witness ==
    /\ tstate["t1"].pc = "store_transactions"
    /\ counterFile.exists
    /\ counterFile.body["transaction"] = 4
    /\ counterFile.body["basket"] = 6
    /\ [k \in DOMAIN tstate["t1"].transactions |-> tstate["t1"].transactions[k].id] = <<3, 4>>
    /\ [p \in DOMAIN tstate["t1"].baskets |->
            <<tstate["t1"].baskets[p].id, tstate["t1"].baskets[p].transaction_id>>]
         = << <<4, 3>>, <<5, 3>>, <<6, 4>> >>

\* the step of h in which get_next_id_batch returns its ids (whatever
\* transform_data then makes of the bucket)
Reserves(h) ==
    /\ tstate[h].pc = "ledger_put"
    /\ tstate'[h].pc # "ledger_put"
    /\ tstate'[h].error # "store"

\* C34: with one invocation after the other, some of them aborted by a validation
\* error or a failing store request: the rows a store request writes carry ids the
\* persisted ledger already counts as issued, and the ids a reservation issues are
\* all above every id of a row in the store
C34_StoredIdsNeverReissued ==
    [][\A h \in Handlers :
          LET task == tstate[h]
          IN  /\ (task.pc = "store_transactions" /\ txFile' # txFile)
                    => /\ task.transactions # <<>>
                       /\ \A k \in BucketKeys : \A i \in DOMAIN txFile'[k].body :
                            txFile'[k].body[i].id <= StoredCounter(counterFile, "transaction")
              /\ (task.pc = "store_baskets" /\ basketFile' # basketFile)
                    => /\ task.baskets # <<>>
                       /\ \A k \in BucketKeys : \A i \in DOMAIN basketFile'[k].body :
                            basketFile'[k].body[i].id <= StoredCounter(counterFile, "basket")
              /\ Reserves(h)
                    => /\ \A row \in StoredTransactions :
                            row.id < CounterRead(task, "transaction") + 1
                       /\ \A row \in StoredBaskets :
                            row.id < CounterRead(task, "basket") + 1
                       /\ \A t \in EntityTypes :
                            StoredCounter(counterFile', t) >= CounterRead(task, t) + 1]_vars

\* an invocation was aborted after it had stored the Transaction row with id 1,
\* with no catalog flushed; the next invocation has reserved its ids and holds a
\* Transaction row with id 2 to store
C34_Witness ==
    /\ transformFailed
    /\ ~locFile.exists
    /\ \E row \in StoredTransactions : row.id = 1
    /\ tstate["t1"].pc = "store_transactions"
    /\ tstate["t1"].transactions[1].id = 2

\* ------------------------------------------------------ claims on the deliveries
\* the fingerprints of the rows of the messages sent to the queue so far
SentHashes == UNION { {RecordHash(body[i]) : i \in DOMAIN body} : body \in DOMAIN sqsQueue }

\* C35: every fingerprint of the persisted fingerprint set is the fingerprint of a
\* row of a message that was sent to the queue, whenever the handler is between
\* two records or two events
C35_PersistedMeansSent == Persisted(hashFile) \subseteq SentHashes

\* ----------------------------------------------------- claims on the resolutions
\* C36: a get_product_id call with the candidate of the call before it on the same
\* catalog returns the id that call returned and leaves the catalog as it is: no
\* product added, next_id unchanged
C36_ResolveIdempotent ==
    [][(/\ ploaded /\ ploaded'
        /\ prodFile' = prodFile
        /\ plast # NoCall
        /\ plast'.cand = plast.cand)
          => /\ plast'.id = plast.id
             /\ Len(preg'.products) = Len(preg.products)
             /\ preg'.next_id = preg.next_id]_vars

\* ------------------------------------------------- claims on the extract counts
\* the fingerprints of the records, in order
HashesOf(records) == [i \in DOMAIN records |-> records[i].record_hash]

\* C38: an extract_csv call with deduplication that returns has as many surviving
\* records and counted duplicates together as the file has well-formed rows, and
\* the new hashes it handed to update_hash_registry are those of the survivors, in
\* order; the put of update_hash_registry stores the registry it read extended by
\* exactly the survivors' fingerprints, and no put is made when nothing survives;
\* a call without deduplication returns with last_duplicate_count 0
C38_DuplicateCountAddsUp ==
    [][\A e \in Extractors :
          /\ (xpc[e] = "store" /\ xpc'[e] = "returned")
                => /\ xdedup[e]
                   /\ Len(xunique'[e]) + xdup'[e] = Len(xdata[e])
                   /\ xnew[e] = HashesOf(xunique'[e])
          /\ (xpc[e] = "write" /\ xpc'[e] = "store")
                => /\ hashFile'.exists
                   /\ hashFile'.body = xreg[e] \cup Range(HashesOf(xunique[e]))
                   /\ xunique[e] # <<>>
          /\ (xpc[e] = "update" /\ xpc'[e] = "store")
                => hashFile' = hashFile /\ xunique[e] = <<>>
          /\ (xpc[e] = "idle" /\ xpc'[e] = "returned")
                => ~xdedup'[e] /\ xdup'[e] = 0]_vars

\* a call on the file [short row, A] has returned with the fingerprint of A
\* persisted before: no survivor, one duplicate, one well-formed row
C38_Witness ==
    /\ xpc["e1"] = "returned"
    /\ xdedup["e1"]
    /\ xunique["e1"] = <<>>
    /\ xdup["e1"] = 1
    /\ hashFile.exists
    /\ hashFile.body = {RecordHash(RowA)}

\* --------------------------------------------------------- claims on the tables
\* C39: a load that succeeds leaves in locations or products the copied file alone
\* and adds the copied file to the rows of any other table; a load that fails
\* leaves every table with the rows it held before the call
C39_FailedLoadLeavesTable ==
    [][ /\ ((lhandler.pc = "loop" /\ lhandler'.copies = lhandler.copies + 1)
              => LET key == Head(lhandler.records)
                     table_name == DetermineTableName(key)
                 IN  /\ \A t \in RedshiftTables \ {table_name} :
                            lhandler'.tables[t] = lhandler.tables[t]
                     /\ lhandler'.tables[table_name] =
                            IF table_name \in {"locations", "products"} THEN <<key>>
                            ELSE Append(lhandler.tables[table_name], key))
        /\ ((lhandler.pc = "loop" /\ lhandler'.failures = lhandler.failures + 1)
              => lhandler'.tables = lhandler.tables) ]_vars

\* ------------------------------------------------------------- claims on progress
\* no notification waits and the extract handler runs no invocation
ExtractIdle == notifications.pending = <<>> /\ xhandler.pc = "idle"

\* the invocation that begins in this step was given the artifact of an earlier one
ArtifactDelivered ==
    /\ xhandler.pc = "idle"
    /\ xhandler'.pc # "idle"
    /\ xhandler'.event.records # <<>>
    /\ \A i \in DOMAIN xhandler'.event.records : FilteredOut(xhandler'.event.records[i])

\* C37: an invocation given the notification of a processed/<file> artifact ends
\* at once with nothing extracted, fingerprinted, written or queued, so that it
\* causes no further notification; every step that extracts a file is about a
\* record outside processed/; and once the uploads have stopped the pipeline comes
\* to rest: from some point on no notification waits and no invocation runs
C37_ExtractDoesNotFeedItself ==
    /\ [][ /\ (ArtifactDelivered
                => /\ xhandler'.pc = "done"
                   /\ ~xhandler'.called
                   /\ xhandler'.response.statusCode = 200
                   /\ UNCHANGED <<hashFile, processedFile, sqsQueue>>
                   /\ Len(notifications'.pending) = Len(notifications.pending) - 1)
            /\ ((xhandler.pc = "process_event"
                    /\ <<hashFile, processedFile, sqsQueue, notifications>>'
                         # <<hashFile, processedFile, sqsQueue, notifications>>)
                => ~InProcessedDirectory(Head(xhandler.records).key)) ]_vars
    /\ <>[]ExtractIdle

\* orders.csv was uploaded and extracted, its rows queued and processed/orders.csv
\* written; the notification of that artifact has been delivered and answered with
\* "No files to process", and no notification waits
C37_Witness ==
    /\ xhandler.pc = "done"
    /\ xhandler.event = S3Event(<<S3Record("ObjectCreated:Put", RawBucket, ProcessedKey(KeyOrders))>>)
    /\ xhandler.response = Response(200, "No files to process", 0, 0)
    /\ processedFile.exists
    /\ sqsQueue # EmptyMap
    /\ notifications.pending = <<>>

\* the record of an extract invocation is dealt with: its rows are queued, there
\* was nothing to queue, or the error is on its way to the 500 response
Answered(e) ==
    \/ xpc[e] = "sent"
    \/ xpc[e] = "returned" /\ xunique[e] = <<>>
    \/ xpc[e] = "raised"

\* every invocation that has begun has answered, with one of the three codes
NoneUnanswered ==
    /\ \A h \in Handlers :
            \/ tstate[h].pc = "idle"
            \/ tstate[h].pc = "done" /\ tstate[h].statusCode \in {200, 204, 500}
    /\ \A e \in Extractors : xpc[e] = "idle" \/ Answered(e)

\* C25: with a store and a queue that answer every request, an invocation of the
\* transform or of the extract handler that has begun reaches its response
\* (200, 204 or 500) however the steps of the other invocations fall between its
\* own: no step of it waits for another invocation, so none is ever stuck. An
\* invocation leaves its response only by the delivery of it, so this is: time
\* and again no invocation is without its response
C25_EveryInvocationAnswers == []<>NoneUnanswered

\* one transform invocation has answered 200 while the other, begun before that,
\* is still between its store requests
C25_Witness ==
    /\ observed = "transform"
    /\ transformOverlap
    /\ tstate["t1"].pc = "done"
    /\ tstate["t1"].statusCode = 200
    /\ tstate["t2"].pc = "ledger_put"

====
